---- MODULE Spec2Model ----
(***************************************************************************)
(* The result-processing pipeline of the EE research agent                 *)
(* (src/src/processors/result_processor.py) and the two TRL classifiers    *)
(* (src/src/providers/trl_provider.py, src/tools/trl_classifier.py).       *)
(*                                                                         *)
(* Encoding of Python values                                               *)
(*   str        a sequence of one-character strings, "" is << >>           *)
(*   None       NoneStr for a text field, NoneInt for a number field       *)
(*   absent key AbsentStr / Absent where the code tells an absent key from *)
(*              an empty value ("trl" in d, d.get("category", "Other"));   *)
(*              elsewhere d.get(k) and d.get(k, "") make an absent key and *)
(*              an empty value behave alike and the empty value stands for *)
(*              both                                                       *)
(*   dict       a sequence of entries in insertion order                   *)
(*   object     a record of objs; lists hold indices into objs, so that a  *)
(*              write to a record is seen through every list that holds it *)
(***************************************************************************)
EXTENDS Integers, Sequences, FiniteSets, TLC

VARIABLES
  raw,        \* raw_results: per lane, whether "data" is a dict and its list
  objs,       \* the record objects of the four lanes (the heap)
  qu,         \* query_understanding
  stage,      \* number of pipeline stages completed in process()
  outcome,    \* "running", "complete", "error", "cancelled"
  res,        \* the `results` dict handed from stage to stage
  prev,       \* the `results` dict the last stage received
  synthesis,  \* stage 9's synthesis dict
  report,     \* stage 10's report: the section headings in order
  ret,        \* the value process() returned
  aux,        \* result of an operation run beside the pipeline
  cancel      \* a cancellation of the process() coroutine is pending

vars == <<raw, objs, qu, stage, outcome, res, prev, synthesis, report, ret, aux, cancel>>

Lanes == {"papers", "patents", "components", "supply_chain"}

----------------------------------------------------------------------------
(* Text *)

UpperLetters == <<"A","B","C","D","E","F","G","H","I","J","K","L","M","N","O","P","Q","R","S","T","U","V","W","X","Y","Z">>
LowerLetters == <<"a","b","c","d","e","f","g","h","i","j","k","l","m","n","o","p","q","r","s","t","u","v","w","x","y","z">>

NoneStr == <<"<None>">>
AbsentStr == <<"<absent>">>
NoneInt == -2
Absent == -1

\* str.lower()
LowerChar(c) ==
  IF \E i \in 1..26 : UpperLetters[i] = c
  THEN LowerLetters[CHOOSE i \in 1..26 : UpperLetters[i] = c]
  ELSE c

Lower(s) == [i \in 1..Len(s) |-> LowerChar(s[i])]

\* needle in hay (Python substring test)
Contains(needle, hay) ==
  \E i \in 0..(Len(hay) - Len(needle)) :
    \A k \in 1..Len(needle) : hay[i + k] = needle[k]

\* bool(x) of a str, list or None
\* a truth value that takes the empty string for true
Truthy_of_empty_string(x) == x # NoneStr /\ x # AbsentStr

Truthy(x) == x # << >> /\ x # NoneStr /\ x # AbsentStr

\* d.get(k, default)
GetOr(v, default) == IF v = AbsentStr THEN default ELSE v

\* f"{x}": None formats as the text None
Fmt(x) == IF x = NoneStr THEN <<"N","o","n","e">> ELSE x

\* f"{item.get('title', '')} {item.get('abstract', '')}".lower()
TitleAbstract(item) == Lower(Fmt(item.title) \o <<" ">> \o Fmt(item.abstract))

\* str.split(): the maximal runs of non-blank characters
RECURSIVE SplitWalk(_, _, _)
SplitWalk(s, cur, acc) ==
  IF s = << >> THEN (IF cur = << >> THEN acc ELSE Append(acc, cur))
  ELSE IF Head(s) = " "
       THEN SplitWalk(Tail(s), << >>, IF cur = << >> THEN acc ELSE Append(acc, cur))
       ELSE SplitWalk(Tail(s), Append(cur, Head(s)), acc)

Split(s) == SplitWalk(s, << >>, << >>)

\* hashlib.md5(t.encode()).hexdigest(), taken as collision-free and as never
\* equal to a DOI: the digest is the tagged text
md5(t) == <<"md5:">> \o t

Pad(n) == [i \in 1..n |-> "x"]

\* number of indices of a list that satisfy a test: sum(1 for x in xs if ...)
CountIdx(n, Test(_)) == Cardinality({i \in 1..n : Test(i)})

SeqRange(s) == {s[i] : i \in 1..Len(s)}

----------------------------------------------------------------------------
(* Stage 1: deduplication *)

RECURSIVE dedup_papers_loop(_, _, _, _)
dedup_papers_loop(papers, O, seen, unique) ==
  IF papers = << >> THEN unique
  ELSE LET paper == O[Head(papers)]
           identifier == IF Truthy(paper.doi) THEN paper.doi
                         ELSE md5(Lower(paper.title))
       IN IF identifier \notin seen
          THEN dedup_papers_loop(Tail(papers), O, seen \cup {identifier},
                                 Append(unique, Head(papers)))
          ELSE dedup_papers_loop(Tail(papers), O, seen, unique)

\* variant: the loop stops at the first duplicate it removes
RECURSIVE drop_first_duplicate(_, _, _)
drop_first_duplicate(papers, O, seen) ==
  IF papers = << >> THEN << >>
  ELSE LET paper == O[Head(papers)]
           identifier == IF Truthy(paper.doi) THEN paper.doi
                         ELSE md5(Lower(paper.title))
       IN IF identifier \in seen THEN Tail(papers)
          ELSE <<Head(papers)>> \o drop_first_duplicate(Tail(papers), O, seen \cup {identifier})

_deduplicate_papers_one_removal(papers, O) == drop_first_duplicate(papers, O, {})

_deduplicate_papers(papers, O) == dedup_papers_loop(papers, O, {}, << >>)

RECURSIVE dedup_patents_loop(_, _, _, _)
dedup_patents_loop(patents, O, seen, unique) ==
  IF patents = << >> THEN unique
  ELSE LET pn == O[Head(patents)].patent_number
       IN IF Truthy(pn) /\ pn \notin seen
          THEN dedup_patents_loop(Tail(patents), O, seen \cup {pn},
                                  Append(unique, Head(patents)))
          ELSE dedup_patents_loop(Tail(patents), O, seen, unique)

_deduplicate_patents(patents, O) == dedup_patents_loop(patents, O, {}, << >>)

RECURSIVE dedup_components_loop(_, _, _, _)
dedup_components_loop(components, O, seen, unique) ==
  IF components = << >> THEN unique
  ELSE LET pn == O[Head(components)].part_number
       IN IF Truthy(pn) /\ pn \notin seen
          THEN dedup_components_loop(Tail(components), O, seen \cup {pn},
                                     Append(unique, Head(components)))
          ELSE dedup_components_loop(Tail(components), O, seen, unique)

_deduplicate_components(components, O) == dedup_components_loop(components, O, {}, << >>)

\* results.get(lane, {}).get("data", {}).get(key, []) raises on "data": None
_deduplicate_raises(R) == \E lane \in Lanes : ~R[lane].data_ok

EmptyXref == [paper_to_patent |-> << >>, patent_to_component |-> << >>,
              paper_to_component |-> << >>]

\* papers, patents and components are deduplicated; the supply-chain list (the
\* "components" of the supply_chain envelope) is handed on as it is
_deduplicate(R, O) ==
  [papers        |-> _deduplicate_papers(R.papers.list, O.papers),
   patents       |-> _deduplicate_patents(R.patents.list, O.patents),
   components    |-> _deduplicate_components(R.components.list, O.components),
   supply_chain  |-> R.supply_chain.list,
   cross_references   |-> EmptyXref,
   component_clusters |-> << >>]

----------------------------------------------------------------------------
(* Stage 2: quality filter *)

\* variant: len(abstract) >= 50
paper_quality_at_least_50(p) == Truthy(p.title) /\ Truthy(p.authors) /\ Len(p.abstract) >= 50

paper_quality(p) == Truthy(p.title) /\ Truthy(p.authors) /\ Len(p.abstract) > 50
patent_quality(p) == Truthy(p.title) /\ Truthy(p.abstract) /\ Truthy(p.patent_number)
component_quality(c) == Truthy(c.part_number) /\ Truthy(c.manufacturer)

\* len(None) raises TypeError once title and authors are truthy
_filter_quality_raises(r, O) ==
  \E i \in 1..Len(r.papers) :
    LET p == O.papers[r.papers[i]]
    IN Truthy(p.title) /\ Truthy(p.authors) /\ p.abstract = NoneStr

_filter_quality(r, O) ==
  [r EXCEPT
     !.papers     = SelectSeq(r.papers, LAMBDA i : paper_quality(O.papers[i])),
     !.patents    = SelectSeq(r.patents, LAMBDA i : patent_quality(O.patents[i])),
     !.components = SelectSeq(r.components, LAMBDA i : component_quality(O.components[i]))]

----------------------------------------------------------------------------
(* Stage 3: relevance filter *)

\* variant: the threshold is min_relevance_score (0.4) of the word count
_is_relevant_min_relevance_score(item, query, entities) ==
  LET text == TitleAbstract(item)
      query_words == Split(query)
      word_matches == CountIdx(Len(query_words), LAMBDA i : Contains(query_words[i], text))
      entity_matches(g) ==
        CountIdx(Len(entities[g]), LAMBDA i : Contains(Lower(entities[g][i]), text))
      RECURSIVE SumGroups(_)
      SumGroups(g) == IF g = 0 THEN 0 ELSE entity_matches(g) + SumGroups(g - 1)
      matches == word_matches + SumGroups(Len(entities))
  IN matches * 10 >= Len(query_words) * 4

\* matches >= len(query_words) * 0.3, in tenths (the float product decides
\* as the exact one does for every word count below 2000)
_is_relevant(item, query, entities) ==
  LET text == TitleAbstract(item)
      query_words == Split(query)
      word_matches == CountIdx(Len(query_words), LAMBDA i : Contains(query_words[i], text))
      entity_matches(g) ==
        CountIdx(Len(entities[g]), LAMBDA i : Contains(Lower(entities[g][i]), text))
      RECURSIVE SumGroups(_)
      SumGroups(g) == IF g = 0 THEN 0 ELSE entity_matches(g) + SumGroups(g - 1)
      matches == word_matches + SumGroups(Len(entities))
  IN matches * 10 >= Len(query_words) * 3

_filter_relevance(r, O, q) ==
  LET query == Lower(q.query)
  IN [r EXCEPT
        !.papers  = SelectSeq(r.papers, LAMBDA i : _is_relevant(O.papers[i], query, q.entities)),
        !.patents = SelectSeq(r.patents, LAMBDA i : _is_relevant(O.patents[i], query, q.entities))]

----------------------------------------------------------------------------
(* Stage 4: regional filter *)

eu_mfrs == << <<"i","n","f","i","n","e","o","n">>,
              <<"s","t","m","i","c","r","o","e","l","e","c","t","r","o","n","i","c","s">>,
              <<"s","t">>, <<"n","x","p">>, <<"p","h","i","l","i","p","s">> >>
asia_mfrs == << <<"r","e","n","e","s","a","s">>, <<"r","o","h","m">>,
                <<"t","o","s","h","i","b","a">>, <<"p","a","n","a","s","o","n","i","c">>,
                <<"s","a","m","s","u","n","g">> >>
R_EU == <<"E","U">>
R_Asia == <<"A","s","i","a">>
R_US == <<"U","S">>

\* _is_regional_match that rejects a manufacturer of no listed target region
_is_regional_match_exclusive(manufacturer, target_regions) ==
  LET mfr_lower == Lower(manufacturer)
  IN IF R_EU \in SeqRange(target_regions)
        /\ \E i \in 1..Len(eu_mfrs) : Contains(eu_mfrs[i], mfr_lower)
     THEN TRUE
     ELSE IF R_Asia \in SeqRange(target_regions)
             /\ \E i \in 1..Len(asia_mfrs) : Contains(asia_mfrs[i], mfr_lower)
          THEN TRUE
          ELSE FALSE

_is_regional_match(manufacturer, target_regions) ==
  LET mfr_lower == Lower(manufacturer)
  IN IF R_EU \in SeqRange(target_regions)
        /\ \E i \in 1..Len(eu_mfrs) : Contains(eu_mfrs[i], mfr_lower)
     THEN TRUE
     ELSE IF R_Asia \in SeqRange(target_regions)
             /\ \E i \in 1..Len(asia_mfrs) : Contains(asia_mfrs[i], mfr_lower)
          THEN TRUE
          ELSE TRUE

\* all(...) in place of any(...): every distributor entry must lie in a target region
supply_chain_in_region_every_offer(sc, target_regions) ==
  \A d \in 1..Len(sc.availability) :
    sc.availability[d].region \in SeqRange(target_regions)

supply_chain_in_region(sc, target_regions) ==
  \E d \in 1..Len(sc.availability) :
    sc.availability[d].region \in SeqRange(target_regions)

\* a regional filter that drops every component when no supply-chain record
\* lies in a target region
_filter_regional_by_supply(r, O, q) ==
  LET kept == SelectSeq(r.supply_chain,
                LAMBDA i : supply_chain_in_region(O.supply_chain[i], q.regions))
  IN [r EXCEPT
        !.components   = IF kept = << >> THEN << >> ELSE r.components,
        !.supply_chain = kept]

_filter_regional(r, O, q) ==
  [r EXCEPT
     !.components   = SelectSeq(r.components,
                        LAMBDA i : _is_regional_match(O.components[i].manufacturer, q.regions)),
     !.supply_chain = SelectSeq(r.supply_chain,
                        LAMBDA i : supply_chain_in_region(O.supply_chain[i], q.regions))]

----------------------------------------------------------------------------
(* Stage 5: TRL classification (writes "trl" into the records themselves) *)

L_Active == <<"A","c","t","i","v","e">>
L_NRND == <<"N","R","N","D">>
L_Obsolete == <<"O","b","s","o","l","e","t","e">>
S_Granted == <<"G","r","a","n","t","e","d">>
S_Pending == <<"P","e","n","d","i","n","g">>

component_placeholder_trl(component) == IF component.lifecycle = L_Active THEN 9 ELSE 7
paper_placeholder_trl(paper) == 2
patent_placeholder_trl(patent) == IF patent.status = S_Granted THEN 5 ELSE 4

\* the new trl of every record of a lane that is in the list and has no "trl" key
annotate(records, list, Trl(_)) ==
  [i \in 1..Len(records) |->
     IF i \in SeqRange(list) /\ records[i].trl = Absent
     THEN [records[i] EXCEPT !.trl = Trl(records[i])]
     ELSE records[i]]

\* the stage as it would be without the '"trl" not in component' test
_classify_trl_overwriting(r, O) ==
  [O EXCEPT
     !.components = [i \in 1..Len(O.components) |->
                       IF i \in SeqRange(r.components)
                       THEN [O.components[i] EXCEPT
                               !.trl = component_placeholder_trl(O.components[i])]
                       ELSE O.components[i]],
     !.papers     = annotate(O.papers, r.papers, paper_placeholder_trl),
     !.patents    = annotate(O.patents, r.patents, patent_placeholder_trl)]

_classify_trl(r, O) ==
  [O EXCEPT
     !.components = annotate(O.components, r.components, component_placeholder_trl),
     !.papers     = annotate(O.papers, r.papers, paper_placeholder_trl),
     !.patents    = annotate(O.patents, r.patents, patent_placeholder_trl)]

----------------------------------------------------------------------------
(* Stage 6: cross-referencing *)

\* the index pairs of a nested loop, outer index first
Pairs(n, m) == [k \in 1..(n * m) |-> <<((k - 1) \div m) + 1, ((k - 1) % m) + 1>>]

MapSeq(s, F(_)) == [i \in 1..Len(s) |-> F(s[i])]

\* component.get("category", "").lower() raises on None, once a patent is looped over
_cross_reference_raises(r, O) ==
  /\ r.patents # << >>
  /\ \E i \in 1..Len(r.components) : O.components[r.components[i]].category = NoneStr

paper_cites_patent(paper, patent) ==
  LET patent_num == Lower(patent.patent_number)
  IN Truthy(patent_num) /\ Contains(patent_num, TitleAbstract(paper))

\* the category compared as it is written, not lower-cased
patent_describes_component_case_sensitive(patent, component) ==
  LET comp_cat == GetOr(component.category, << >>)
  IN Truthy(comp_cat) /\ Contains(comp_cat, TitleAbstract(patent))

patent_describes_component(patent, component) ==
  LET comp_cat == Lower(GetOr(component.category, << >>))
  IN Truthy(comp_cat) /\ Contains(comp_cat, TitleAbstract(patent))

_cross_reference(r, O) ==
  LET pp == SelectSeq(Pairs(Len(r.papers), Len(r.patents)),
              LAMBDA e : paper_cites_patent(O.papers[r.papers[e[1]]],
                                            O.patents[r.patents[e[2]]]))
      pc == SelectSeq(Pairs(Len(r.patents), Len(r.components)),
              LAMBDA e : patent_describes_component(O.patents[r.patents[e[1]]],
                                                    O.components[r.components[e[2]]]))
  IN [r EXCEPT !.cross_references =
        [paper_to_patent |->
           MapSeq(pp, LAMBDA e : [paper  |-> O.papers[r.papers[e[1]]].title,
                                  patent |-> O.patents[r.patents[e[2]]].patent_number]),
         patent_to_component |->
           MapSeq(pc, LAMBDA e : [patent    |-> O.patents[r.patents[e[1]]].patent_number,
                                  component |-> O.components[r.components[e[2]]].part_number]),
         paper_to_component |-> << >>]]

----------------------------------------------------------------------------
(* Stage 7: ranking *)

PAPER_TOP == 20
PATENT_TOP == 20
COMPONENT_TOP == 30

\* the characters of the model in code-point order
CharOrder == <<" ", "-", ".", "/", "0", "1", "2", "3", "4", "5", "6", "7", "8", "9", ":">>
               \o UpperLetters \o LowerLetters
Code(c) == CHOOSE i \in 1..Len(CharOrder) : CharOrder[i] = c

\* a < b for Python strings
RECURSIVE StrLess(_, _)
StrLess(a, b) ==
  IF b = << >> THEN FALSE
  ELSE IF a = << >> THEN TRUE
  ELSE IF Head(a) = Head(b) THEN StrLess(Tail(a), Tail(b))
  ELSE Code(Head(a)) < Code(Head(b))

\* list.sort(key=..., reverse=True): descending, equal keys keep their order.
\* Before(x, y): x's key is strictly greater than y's. An element's place is
\* the number of elements that sort before it.
SortDesc(list, Before(_, _)) ==
  LET n == Len(list)
      place(i) == 1 + Cardinality({j \in 1..n : Before(list[j], list[i])})
                    + Cardinality({j \in 1..(i - 1) :
                                     /\ ~Before(list[j], list[i])
                                     /\ ~Before(list[i], list[j])})
  IN [p \in 1..n |-> list[CHOOSE i \in 1..n : place(i) = p]]

Prefix(s, n) == SubSeq(s, 1, IF Len(s) < n THEN Len(s) ELSE n)

\* comparing None with a number (or with None) raises TypeError
_rank_results_raises(r, O) ==
  /\ Len(r.papers) >= 2
  /\ \E i \in 1..Len(r.papers) : O.papers[r.papers[i]].year = NoneInt

\* d.get(k, 0) of a number
GetOrZero(v) == IF v = Absent THEN 0 ELSE v

\* papers.sort(...), patents.sort(...), components.sort(...): the three lists
\* as list.sort leaves them, in place
sorted_in_place(r, O) ==
  [papers |-> SortDesc(r.papers,
                LAMBDA x, y : GetOrZero(O.papers[x].year) > GetOrZero(O.papers[y].year)),
   patents |-> SortDesc(r.patents,
                LAMBDA x, y : StrLess(GetOr(O.patents[y].filing_date, << >>),
                                      GetOr(O.patents[x].filing_date, << >>))),
   components |-> SortDesc(r.components,
                LAMBDA x, y : GetOrZero(O.components[x].trl) > GetOrZero(O.components[y].trl))]

_rank_results(r, O) ==
  [r EXCEPT
     !.papers = Prefix(sorted_in_place(r, O).papers, PAPER_TOP),
     !.patents = Prefix(sorted_in_place(r, O).patents, PATENT_TOP),
     !.components = Prefix(sorted_in_place(r, O).components, COMPONENT_TOP)]

\* whether results[lane] after stage k is the very list the caller passed in.
\* _deduplicate builds the lists of papers, patents and components anew and
\* hands the supply-chain list on as it is; stages 2 and 3 pass that list
\* through; stage 4 builds a new one.
shares_raw_list(lane, k) == lane = "supply_chain" /\ k \in 1..3

\* the caller's lists after the stage-7 sorts: a sort shows in raw_results
\* when the sorted list is the caller's own
raw_after_rank(R, r, O) ==
  [R EXCEPT
     !.papers.list = IF shares_raw_list("papers", 6)
                     THEN sorted_in_place(r, O).papers ELSE @,
     !.patents.list = IF shares_raw_list("patents", 6)
                      THEN sorted_in_place(r, O).patents ELSE @,
     !.components.list = IF shares_raw_list("components", 6)
                         THEN sorted_in_place(r, O).components ELSE @]

----------------------------------------------------------------------------
(* Stage 8: clustering *)

C_Other == <<"O","t","h","e","r">>

RECURSIVE cluster_loop(_, _, _)
cluster_loop(components, O, clusters) ==
  IF components = << >> THEN clusters
  ELSE LET category == GetOr(O[Head(components)].category, C_Other)
           known == \E k \in 1..Len(clusters) : clusters[k].category = category
           opened == IF known THEN clusters
                     ELSE Append(clusters, [category |-> category, members |-> << >>])
           k == CHOOSE k \in 1..Len(opened) : opened[k].category = category
       IN cluster_loop(Tail(components), O,
            [opened EXCEPT ![k].members = Append(@, Head(components))])

_cluster_results(r, O) ==
  [r EXCEPT !.component_clusters = cluster_loop(r.components, O.components, << >>)]

----------------------------------------------------------------------------
(* Stage 9: synthesis *)

RECENT_YEAR == 2023
RECENT_PAPERS_MIN == 5
RECENT_PATENTS_MIN == 3
RECOMMEND_TOP == 5
GOOD_STOCK == 1000
HEALTHY_STOCK == 5000
PRODUCTION_TRL == 8
Y2023 == <<"2","0","2","3">>

RECURSIVE SumSeq(_)
SumSeq(s) == IF s = << >> THEN 0 ELSE Head(s) + SumSeq(Tail(s))

\* sum(d.get("stock", 0) for d in availability.values())
total_stock_of(availability) == SumSeq([d \in 1..Len(availability) |-> availability[d].stock])

_create_summary(papers, patents, components) ==
  [papers |-> Len(papers), patents |-> Len(patents), components |-> Len(components)]

_extract_key_findings(r, O) ==
  LET ready == CountIdx(Len(r.components),
                 LAMBDA i : O.components[r.components[i]].trl >= PRODUCTION_TRL)
  IN (IF r.papers # << >>
      THEN << [kind |-> "Recent research highlights", count |-> 0,
               title |-> O.papers[r.papers[1]].title] >>
      ELSE << >>)
     \o
     (IF ready > 0
      THEN << [kind |-> "production-ready components identified", count |-> ready,
               title |-> << >>] >>
      ELSE << >>)

\* None >= 2023 raises TypeError
_identify_trends_raises(r, O) ==
  \E i \in 1..Len(r.papers) : O.papers[r.papers[i]].year = NoneInt

_identify_trends(r, O) ==
  LET recent_papers == CountIdx(Len(r.papers),
                         LAMBDA i : O.papers[r.papers[i]].year >= RECENT_YEAR)
      recent_patents == CountIdx(Len(r.patents),
                          LAMBDA i : ~StrLess(Prefix(O.patents[r.patents[i]].filing_date, 4), Y2023))
  IN (IF recent_papers > RECENT_PAPERS_MIN
      THEN <<"High research activity in recent years">> ELSE << >>)
     \o
     (IF recent_patents > RECENT_PATENTS_MIN
      THEN <<"Active patent filing indicates commercial interest">> ELSE << >>)

\* sc_map = {sc.get("part_number"): sc ...}: the last record of a part number stays
sc_map_lookup(pn, supply_chain, O) ==
  LET hits == {i \in 1..Len(supply_chain) : O[supply_chain[i]].part_number = pn}
  IN IF hits = {} THEN 0
     ELSE supply_chain[CHOOSE i \in hits : \A j \in hits : j <= i]

_recommend_components(r, O) ==
  LET top == Prefix(r.components, RECOMMEND_TOP)
      one(c) ==
        LET component == O.components[c]
            sc == sc_map_lookup(component.part_number, r.supply_chain, O.supply_chain)
            stock == IF sc = 0 THEN 0 ELSE total_stock_of(O.supply_chain[sc].availability)
        IN [part_number  |-> component.part_number,
            manufacturer |-> component.manufacturer,
            trl          |-> component.trl,
            lifecycle    |-> component.lifecycle,
            rationale    |->
              (IF component.trl >= PRODUCTION_TRL
               THEN << [text |-> "Production-proven", units |-> 0] >> ELSE << >>)
              \o (IF component.lifecycle = L_Active
                  THEN << [text |-> "Active lifecycle", units |-> 0] >> ELSE << >>)
              \o (IF sc # 0 /\ stock > GOOD_STOCK
                  THEN << [text |-> "Good availability", units |-> stock] >> ELSE << >>)]
  IN MapSeq(top, one)

_assess_supply_chain(r, O) ==
  IF r.supply_chain = << >>
  THEN [status |-> "no_data", total_stock |-> 0, active_components |-> 0,
        components_checked |-> 0]
  ELSE LET total_stock == SumSeq([i \in 1..Len(r.supply_chain) |->
                            total_stock_of(O.supply_chain[r.supply_chain[i]].availability)])
           active_count == CountIdx(Len(r.supply_chain),
                             LAMBDA i : O.supply_chain[r.supply_chain[i]].lifecycle = L_Active)
       IN [status |-> IF total_stock > HEALTHY_STOCK THEN "healthy" ELSE "low_stock",
           total_stock |-> total_stock,
           active_components |-> active_count,
           components_checked |-> Len(r.supply_chain)]

\* the trl values the three loops read, in loop order
trl_values(r, O) ==
  [i \in 1..Len(r.papers) |-> O.papers[r.papers[i]].trl]
  \o [i \in 1..Len(r.patents) |-> O.patents[r.patents[i]].trl]
  \o [i \in 1..Len(r.components) |-> O.components[r.components[i]].trl]

\* `if trl:` skips 0 and None
TrlTruthy(trl) == trl # 0 /\ trl # Absent /\ trl # NoneInt

\* distribution[f"TRL {trl}"] raises KeyError outside "TRL 1".."TRL 9"
_calculate_trl_distribution_raises(r, O) ==
  LET t == trl_values(r, O)
  IN \E i \in 1..Len(t) : TrlTruthy(t[i]) /\ t[i] \notin 1..9

RECURSIVE distribution_loop(_, _)
distribution_loop(t, distribution) ==
  IF t = << >> THEN distribution
  ELSE IF TrlTruthy(Head(t))
       THEN distribution_loop(Tail(t), [distribution EXCEPT ![Head(t)] = @ + 1])
       ELSE distribution_loop(Tail(t), distribution)

_calculate_trl_distribution(r, O) ==
  distribution_loop(trl_values(r, O), [i \in 1..9 |-> 0])

NoSupplyStatus == [status |-> "no_data", total_stock |-> 0, active_components |-> 0,
                   components_checked |-> 0]

\* the empty dict {} of the error return
NoSynthesis ==
  [present |-> FALSE,
   summary |-> [papers |-> 0, patents |-> 0, components |-> 0],
   key_findings |-> << >>, technology_trends |-> << >>,
   component_recommendations |-> << >>,
   supply_chain_status |-> NoSupplyStatus,
   trl_distribution |-> [i \in 1..9 |-> 0]]

_synthesize_findings_raises(r, O) ==
  _identify_trends_raises(r, O) \/ _calculate_trl_distribution_raises(r, O)

_synthesize_findings(r, O) ==
  [present |-> TRUE,
   summary |-> _create_summary(r.papers, r.patents, r.components),
   key_findings |-> _extract_key_findings(r, O),
   technology_trends |-> _identify_trends(r, O),
   component_recommendations |-> _recommend_components(r, O),
   supply_chain_status |-> _assess_supply_chain(r, O),
   trl_distribution |-> _calculate_trl_distribution(r, O)]

----------------------------------------------------------------------------
(* Stage 10: report; the report is modelled by its headings, in order *)

_generate_report(syn) ==
  LET trl_dist == syn.trl_distribution
      total == SumSeq(trl_dist)
  IN <<"EE Research Report", "Executive Summary">>
     \o (IF syn.key_findings # << >> THEN <<"Key Findings">> ELSE << >>)
     \o (IF syn.technology_trends # << >> THEN <<"Technology Trends">> ELSE << >>)
     \o (IF syn.component_recommendations # << >> THEN <<"Recommended Components">> ELSE << >>)
     \o (IF syn.supply_chain_status.status # "no_data" THEN <<"Supply Chain Status">> ELSE << >>)
     \o (IF total > 0 THEN <<"Technology Readiness Distribution">> ELSE << >>)
     \o (IF total > 0 THEN <<"Maturity Assessment">> ELSE << >>)

_count_findings(papers, patents, components, supply_chain) ==
  Len(papers) + Len(patents) + Len(components) + Len(supply_chain)

----------------------------------------------------------------------------
(* process(): what it returns *)

PIPELINE_STAGES == 10

NoResults == [papers |-> << >>, patents |-> << >>, components |-> << >>,
              supply_chain |-> << >>, cross_references |-> EmptyXref,
              component_clusters |-> << >>]

NoReturn == [kind |-> "none", processed_results |-> NoResults, synthesis |-> NoSynthesis,
             report |-> << >>, pipeline_stages |-> 0, total_findings |-> 0]

\* return {"processed_results": results, "synthesis": ..., "report": ..., "metadata": ...}
CompleteReturn(r, syn, rep) ==
  [kind |-> "result", processed_results |-> r, synthesis |-> syn, report |-> rep,
   pipeline_stages |-> PIPELINE_STAGES,
   total_findings |-> _count_findings(r.papers, r.patents, r.components, r.supply_chain)]

\* the lists of raw_results: the caller's own lists, holding the caller's records
RawLists(R) ==
  [papers |-> R.papers.list, patents |-> R.patents.list,
   components |-> R.components.list, supply_chain |-> R.supply_chain.list,
   cross_references |-> EmptyXref, component_clusters |-> << >>]

\* except Exception: return {"error": ..., "processed_results": raw_results,
\*                           "synthesis": {}, "report": "Error processing results"}
ErrorReturn(R) ==
  [kind |-> "error", processed_results |-> RawLists(R), synthesis |-> NoSynthesis,
   report |-> <<"Error processing results">>, pipeline_stages |-> 0, total_findings |-> 0]

\* BaseProvider._create_response: a provider envelope is a dict of six keys
\* (provider, success, data, error, metadata, timestamp)
ENVELOPE_KEYS == 6

\* _count_findings(raw_results): results.get(lane, []) is the lane's envelope,
\* a dict, and len() of a dict is the number of its keys
_count_findings_of_raw(R) ==
  SumSeq([i \in 1..4 |-> ENVELOPE_KEYS])

\* validate_results(results): the three required keys, then a count above zero.
\* A complete return and an error return both carry the three keys; the
\* "processed_results" of an error return is raw_results itself.
validate_results(results) ==
  IF results.kind \notin {"result", "error"} THEN FALSE
  ELSE LET processed == results.processed_results
           total_findings ==
             IF results.kind = "error" THEN _count_findings_of_raw(processed)
             ELSE _count_findings(processed.papers, processed.patents,
                                  processed.components, processed.supply_chain)
       IN total_findings > 0

----------------------------------------------------------------------------
(* TRLProvider (src/src/providers/trl_provider.py). A confidence is kept in  *)
(* hundredths: 60 is the float 0.6.                                         *)

\* TRLProvider.trl_indicators: level -> keywords, in list order
provider_trl_indicators ==
  <<
    << <<"t","h","e","o","r","e","t","i","c","a","l">>,
       <<"p","r","i","n","c","i","p","l","e">>,
       <<"b","a","s","i","c"," ","r","e","s","e","a","r","c","h">>,
       <<"h","y","p","o","t","h","e","s","i","s">>,
       <<"c","o","n","c","e","p","t">> >>,
    << <<"c","o","n","c","e","p","t">>,
       <<"f","e","a","s","i","b","i","l","i","t","y">>,
       <<"p","r","o","p","o","s","e","d">>,
       <<"i","n","i","t","i","a","l"," ","d","e","s","i","g","n">>,
       <<"f","o","r","m","u","l","a","t","e","d">> >>,
    << <<"e","x","p","e","r","i","m","e","n","t">>,
       <<"p","r","o","o","f"," ","o","f"," ","c","o","n","c","e","p","t">>,
       <<"l","a","b"," ","t","e","s","t">>,
       <<"p","r","o","t","o","t","y","p","e">>,
       <<"d","e","m","o","n","s","t","r","a","t","i","o","n">> >>,
    << <<"l","a","b","o","r","a","t","o","r","y"," ","v","a","l","i","d","a","t","i","o","n">>,
       <<"c","o","m","p","o","n","e","n","t"," ","t","e","s","t">>,
       <<"b","e","n","c","h"," ","t","e","s","t">>,
       <<"v","a","l","i","d","a","t","e","d">> >>,
    << <<"f","i","e","l","d"," ","t","e","s","t">>,
       <<"r","e","l","e","v","a","n","t"," ","e","n","v","i","r","o","n","m","e","n","t">>,
       <<"p","i","l","o","t">>,
       <<"v","a","l","i","d","a","t","i","o","n">> >>,
    << <<"p","r","o","t","o","t","y","p","e"," ","d","e","m","o","n","s","t","r","a","t","i","o","n">>,
       <<"s","y","s","t","e","m"," ","t","e","s","t">>,
       <<"b","e","t","a">>,
       <<"e","n","g","i","n","e","e","r","i","n","g">> >>,
    << <<"p","r","e","-","p","r","o","d","u","c","t","i","o","n">>,
       <<"q","u","a","l","i","f","i","c","a","t","i","o","n">>,
       <<"o","p","e","r","a","t","i","o","n","a","l"," ","t","e","s","t">>,
       <<"p","r","o","t","o","t","y","p","e">> >>,
    << <<"p","r","o","d","u","c","t","i","o","n">>,
       <<"q","u","a","l","i","f","i","e","d">>,
       <<"c","e","r","t","i","f","i","e","d">>,
       <<"c","o","m","p","l","i","a","n","t">>,
       <<"m","a","n","u","f","a","c","t","u","r","i","n","g">> >>,
    << <<"d","e","p","l","o","y","e","d">>,
       <<"c","o","m","m","e","r","c","i","a","l">>,
       <<"m","a","s","s"," ","p","r","o","d","u","c","t","i","o","n">>,
       <<"p","r","o","v","e","n">>,
       <<"o","p","e","r","a","t","i","o","n","a","l">> >>
  >>

\* TRLClassifier.trl_indicators: level -> keywords, in list order
tool_trl_indicators ==
  <<
    << <<"t","h","e","o","r","e","t","i","c","a","l">>,
       <<"p","r","i","n","c","i","p","l","e">>,
       <<"b","a","s","i","c"," ","r","e","s","e","a","r","c","h">>,
       <<"h","y","p","o","t","h","e","s","i","s">> >>,
    << <<"c","o","n","c","e","p","t">>,
       <<"f","e","a","s","i","b","i","l","i","t","y">>,
       <<"p","r","o","p","o","s","e","d">>,
       <<"i","n","i","t","i","a","l"," ","d","e","s","i","g","n">> >>,
    << <<"e","x","p","e","r","i","m","e","n","t">>,
       <<"p","r","o","o","f"," ","o","f"," ","c","o","n","c","e","p","t">>,
       <<"l","a","b"," ","t","e","s","t">>,
       <<"p","r","o","t","o","t","y","p","e">> >>,
    << <<"l","a","b","o","r","a","t","o","r","y"," ","v","a","l","i","d","a","t","i","o","n">>,
       <<"c","o","m","p","o","n","e","n","t"," ","t","e","s","t">>,
       <<"b","e","n","c","h"," ","t","e","s","t">> >>,
    << <<"f","i","e","l","d"," ","t","e","s","t">>,
       <<"r","e","l","e","v","a","n","t"," ","e","n","v","i","r","o","n","m","e","n","t">>,
       <<"p","i","l","o","t">> >>,
    << <<"p","r","o","t","o","t","y","p","e"," ","d","e","m","o","n","s","t","r","a","t","i","o","n">>,
       <<"s","y","s","t","e","m"," ","t","e","s","t">>,
       <<"b","e","t","a">> >>,
    << <<"p","r","e","-","p","r","o","d","u","c","t","i","o","n">>,
       <<"q","u","a","l","i","f","i","c","a","t","i","o","n">>,
       <<"o","p","e","r","a","t","i","o","n","a","l"," ","t","e","s","t">> >>,
    << <<"p","r","o","d","u","c","t","i","o","n">>,
       <<"q","u","a","l","i","f","i","e","d">>,
       <<"c","e","r","t","i","f","i","e","d">>,
       <<"c","o","m","p","l","i","a","n","t">> >>,
    << <<"d","e","p","l","o","y","e","d">>,
       <<"c","o","m","m","e","r","c","i","a","l">>,
       <<"m","a","s","s"," ","p","r","o","d","u","c","t","i","o","n">>,
       <<"p","r","o","v","e","n">> >>
  >>

l_active == <<"a","c","t","i","v","e">>
l_nrnd == <<"n","r","n","d">>
l_obsolete == <<"o","b","s","o","l","e","t","e">>
s_granted == <<"g","r","a","n","t","e","d">>

Min(a, b) == IF a < b THEN a ELSE b

\* len([d for d in availability.values() if d.get("stock", 0) > 0])
stocked_distributors(availability) ==
  CountIdx(Len(availability), LAMBDA d : availability[d].stock > 0)

provider_component_trl(component) ==
  LET lifecycle == Lower(GetOr(component.lifecycle, << >>))
      total_stock == total_stock_of(component.availability)
      distributor_count == stocked_distributors(component.availability)
      by_lifecycle ==
        IF lifecycle = l_active
        THEN (IF total_stock > 1000 /\ distributor_count >= 2 THEN 9
              ELSE IF total_stock > 100 THEN 8
              ELSE 7)
        ELSE IF lifecycle = l_nrnd THEN 8
        ELSE IF lifecycle = l_obsolete THEN 9
        ELSE 5
  IN IF Truthy(component.datasheet_url) /\ by_lifecycle < 7 THEN 7 ELSE by_lifecycle

\* the confidence without the +0.1 of a non-empty availability
provider_component_confidence_no_availability_bonus(component) ==
  LET lifecycle == Lower(GetOr(component.lifecycle, << >>))
  IN Min(60 + (IF lifecycle \in {l_active, l_nrnd, l_obsolete} THEN 20 ELSE 0)
            + (IF Truthy(component.datasheet_url) THEN 10 ELSE 0),
         100)

provider_component_confidence(component) ==
  LET lifecycle == Lower(GetOr(component.lifecycle, << >>))
  IN Min(60 + (IF lifecycle \in {l_active, l_nrnd, l_obsolete} THEN 20 ELSE 0)
            + (IF component.availability # << >> THEN 10 ELSE 0)
            + (IF Truthy(component.datasheet_url) THEN 10 ELSE 0),
         100)

\* the reasons joined into the justification, in the order they are appended
provider_component_reasons(component) ==
  LET lifecycle == Lower(GetOr(component.lifecycle, << >>))
      total_stock == total_stock_of(component.availability)
      distributor_count == stocked_distributors(component.availability)
  IN (IF lifecycle = l_active
      THEN (IF total_stock > 1000 /\ distributor_count >= 2 THEN <<"Mass production">>
            ELSE IF total_stock > 100 THEN <<"Production qualified">>
            ELSE <<"Active lifecycle with limited production">>)
      ELSE IF lifecycle = l_nrnd THEN <<"Not recommended for new design">>
      ELSE IF lifecycle = l_obsolete THEN <<"Obsolete">>
      ELSE << >>)
     \o (IF Truthy(component.datasheet_url) THEN <<"Published datasheet available">> ELSE << >>)
     \o (IF Len(component.specifications) > 5 THEN <<"Comprehensive specifications">> ELSE << >>)
     \o (IF component.applications # << >> THEN <<"Documented applications">> ELSE << >>)

_classify_component(component) ==
  [trl |-> provider_component_trl(component),
   confidence |-> provider_component_confidence(component),
   reasons |-> provider_component_reasons(component)]

\* [ind for ind in indicators if ind in text]
indicator_matches(table, trl, text) ==
  SelectSeq(table[trl], LAMBDA ind : Contains(ind, text))

\* for trl in range(9, low, -1): the first level with a match, 0 when none has one
first_level(table, low, text) ==
  LET hit == {t \in (low + 1)..9 : indicator_matches(table, t, text) # << >>}
  IN IF hit = {} THEN 0 ELSE CHOOSE t \in hit : \A u \in hit : u <= t

\* _classify_paper with the confidence of a paper without indicator match set
\* to the 0.6 of the matched case
_classify_paper_default_confidence_60(paper) ==
  LET text == TitleAbstract(paper)
      level == first_level(provider_trl_indicators, 0, text)
      matches == IF level = 0 THEN << >>
                 ELSE indicator_matches(provider_trl_indicators, level, text)
      detected_trl == IF level = 0 THEN 2 ELSE level
      confidence == 60 + Len(matches) * 5
  IN [trl |-> IF detected_trl > 6 THEN Min(detected_trl, 6) ELSE detected_trl,
      confidence |-> Min(confidence, 80),
      reasons |-> (IF level = 0 THEN << >> ELSE <<"Indicators">>)
                  \o (IF detected_trl > 6 THEN <<"Adjusted">> ELSE << >>)
                  \o <<"Source: academic paper">>]

_classify_paper(paper) ==
  LET text == TitleAbstract(paper)
      level == first_level(provider_trl_indicators, 0, text)
      matches == IF level = 0 THEN << >>
                 ELSE indicator_matches(provider_trl_indicators, level, text)
      detected_trl == IF level = 0 THEN 2 ELSE level
      confidence == IF level = 0 THEN 50 ELSE 60 + Len(matches) * 5
  IN [trl |-> IF detected_trl > 6 THEN Min(detected_trl, 6) ELSE detected_trl,
      confidence |-> Min(confidence, 80),
      reasons |-> (IF level = 0 THEN << >> ELSE <<"Indicators">>)
                  \o (IF detected_trl > 6 THEN <<"Adjusted">> ELSE << >>)
                  \o <<"Source: academic paper">>]

\* _classify_patent without the +0.1 of an indicator upgrade
_classify_patent_no_upgrade_bonus(patent) ==
  LET text == TitleAbstract(patent)
      status == Lower(GetOr(patent.status, << >>))
      granted == Contains(s_granted, status)
      base_trl == IF granted THEN 5 ELSE 4
      level == first_level(provider_trl_indicators, base_trl, text)
      found == IF level = 0 THEN base_trl ELSE level
      confidence == IF granted THEN 70 ELSE 60
  IN [trl |-> IF found > 7 THEN 7 ELSE found,
      confidence |-> Min(confidence, 85),
      reasons |-> (IF granted THEN <<"Granted patent">> ELSE <<"Pending patent">>)
                  \o (IF level = 0 THEN << >> ELSE <<"Indicators">>)
                  \o (IF found > 7 THEN <<"Adjusted">> ELSE << >>)]

_classify_patent(patent) ==
  LET text == TitleAbstract(patent)
      status == Lower(GetOr(patent.status, << >>))
      granted == Contains(s_granted, status)
      base_trl == IF granted THEN 5 ELSE 4
      level == first_level(provider_trl_indicators, base_trl, text)
      found == IF level = 0 THEN base_trl ELSE level
      confidence == (IF granted THEN 70 ELSE 60) + (IF level = 0 THEN 0 ELSE 10)
  IN [trl |-> IF found > 7 THEN 7 ELSE found,
      confidence |-> Min(confidence, 85),
      reasons |-> (IF granted THEN <<"Granted patent">> ELSE <<"Pending patent">>)
                  \o (IF level = 0 THEN << >> ELSE <<"Indicators">>)
                  \o (IF found > 7 THEN <<"Adjusted">> ELSE << >>)]

\* None.lower() raises inside fetch's try block
fetch_raises(kind, record) ==
  \/ kind = "component" /\ record.lifecycle = NoneStr
  \/ kind = "patent" /\ record.status = NoneStr

NoClassification == [trl |-> Absent, confidence |-> Absent, reasons |-> << >>]

\* fetch(component=..) / fetch(paper=..) / fetch(patent=..) of a non-empty record
fetch(kind, record) ==
  IF fetch_raises(kind, record)
  THEN [success |-> FALSE, entity_type |-> kind, data |-> NoClassification]
  ELSE [success |-> TRUE, entity_type |-> kind,
        data |-> CASE kind = "component" -> _classify_component(record)
                   [] kind = "paper" -> _classify_paper(record)
                   [] kind = "patent" -> _classify_patent(record)]

\* _calculate_distribution over the classifications' trl values
_calculate_distribution(trls) == distribution_loop(trls, [i \in 1..9 |-> 0])

\* the classifications one of classify_batch's three loops appends
batch_loop(kind, records) ==
  LET results == [i \in 1..Len(records) |-> fetch(kind, records[i])]
      ok == SelectSeq(results, LAMBDA result : result.success)
  IN [i \in 1..Len(ok) |-> [type |-> kind, trl |-> ok[i].data.trl]]

\* sum(distribution[f"TRL {i}"] for i in range(low, high + 1))
phase_count(distribution, low, high) ==
  SumSeq([i \in 1..(high - low + 1) |-> distribution[low + i - 1]])

MATURE_SHARE == 60
PHASE_SHARE == 50

\* _analyze_distribution calling half of the items in production "Mature"
_analyze_distribution_production_at_least_half(distribution) ==
  LET total == phase_count(distribution, 1, 9)
      production == phase_count(distribution, 7, 9)
      development == phase_count(distribution, 4, 6)
      research == phase_count(distribution, 1, 3)
  IN IF total = 0
     THEN [status |-> "no_data", research |-> 0, development |-> 0, production |-> 0,
           overall_maturity |-> "", total_classified |-> 0]
     ELSE [status |-> "analysed",
           research |-> research, development |-> development, production |-> production,
           overall_maturity |->
             IF production * 100 >= PHASE_SHARE * total THEN "Mature"
             ELSE IF development * 100 > PHASE_SHARE * total THEN "Active development"
             ELSE IF research * 100 > PHASE_SHARE * total THEN "Early research"
             ELSE "Mixed maturity",
           total_classified |-> total]

\* a phase share count / total * 100 is kept as its count next to the total:
\* share > p is count * 100 > p * total
_analyze_distribution(distribution) ==
  LET total == phase_count(distribution, 1, 9)
      research == phase_count(distribution, 1, 3)
      development == phase_count(distribution, 4, 6)
      production == phase_count(distribution, 7, 9)
  IN IF total = 0
     THEN [status |-> "no_data", research |-> 0, development |-> 0, production |-> 0,
           overall_maturity |-> "", total_classified |-> 0]
     ELSE [status |-> "analysed",
           research |-> research, development |-> development, production |-> production,
           overall_maturity |->
             IF production * 100 > MATURE_SHARE * total THEN "Mature"
             ELSE IF development * 100 > PHASE_SHARE * total THEN "Active development"
             ELSE IF research * 100 > PHASE_SHARE * total THEN "Early research"
             ELSE "Mixed maturity",
           total_classified |-> total]

classify_batch(components, papers, patents) ==
  LET classifications == batch_loop("component", components)
                         \o batch_loop("paper", papers)
                         \o batch_loop("patent", patents)
      distribution == _calculate_distribution(
                        [i \in 1..Len(classifications) |-> classifications[i].trl])
  IN [classifications |-> classifications,
      distribution |-> distribution,
      analysis |-> _analyze_distribution(distribution)]

----------------------------------------------------------------------------
(* TRLClassifier (src/tools/trl_classifier.py) *)

_classify_from_supply_chain(component) ==
  LET sc_data == component.supply_chain
      total_stock == total_stock_of(sc_data)
      distributor_count == stocked_distributors(sc_data)
  IN IF sc_data = << >> THEN 6
     ELSE IF total_stock > 1000 /\ distributor_count >= 2 THEN 9
     ELSE IF total_stock > 100 THEN 8
     ELSE 7

\* None.lower() raises
classify_raises(component) == component.trl = Absent /\ component.lifecycle = NoneStr

classify(component) ==
  LET lifecycle == Lower(GetOr(component.lifecycle, << >>))
  IN IF component.trl # Absent THEN component.trl
     ELSE IF lifecycle = l_active THEN _classify_from_supply_chain(component)
     ELSE IF lifecycle = l_nrnd THEN 8
     ELSE IF lifecycle = l_obsolete THEN 9
     ELSE IF component.supply_chain # << >> THEN _classify_from_supply_chain(component)
     ELSE IF Truthy(component.datasheet_url) THEN 7
     ELSE 5

\* any(indicator in text for indicator in indicators), from level 9 down
classify_from_paper(paper) ==
  LET level == first_level(tool_trl_indicators, 0, TitleAbstract(paper))
  IN IF level = 0 THEN 2 ELSE level

classify_from_patent_raises(patent) == patent.status = NoneStr

classify_from_patent(patent) ==
  LET base_trl == IF Contains(s_granted, Lower(GetOr(patent.status, << >>))) THEN 5 ELSE 4
      level == first_level(tool_trl_indicators, base_trl, TitleAbstract(patent))
  IN IF level = 0 THEN base_trl ELSE level

----------------------------------------------------------------------------
(* Inputs *)

MaxRecords == 3
MaxFailed == 1

T_gan_fet == <<"G","a","N"," ","F","E","T">>
T_sic_diode == <<"S","i","C"," ","d","i","o","d","e">>
T_gate_driver == <<"f","e","t"," ","g","a","t","e"," ","d","r","i","v","e","r">>
D_x == <<"1","0",".","1","/","x">>
D_y == <<"1","0",".","1","/","y">>
A_lee == <<"l","e","e">>
N_US1 == <<"U","S","1">>
N_EP2 == <<"E","P","2">>
PN_1 == <<"P","1">>
PN_2 == <<"P","2">>
M_Infineon == <<"I","n","f","i","n","e","o","n">>
M_Acme == <<"A","c","m","e">>
Cat_FET == <<"F","E","T">>
F_2024 == <<"2","0","2","4","-","0","1","-","0","1">>
F_2019 == <<"2","0","1","9","-","0","6","-","3","0">>
Dist_digikey == <<"d","i","g","i","k","e","y">>
Dist_mouser == <<"m","o","u","s","e","r">>
Q_gan_fet == <<"G","a","N"," ","F","E","T">>
Q_ldo == <<"l","d","o">>
E_GaN == <<"G","a","N">>

Paper(doi, title, authors, abstract, year, trl) ==
  [doi |-> doi, title |-> title, authors |-> authors, abstract |-> abstract,
   year |-> year, trl |-> trl]

Patent(patent_number, title, abstract, status, filing_date, trl) ==
  [patent_number |-> patent_number, title |-> title, abstract |-> abstract,
   status |-> status, filing_date |-> filing_date, trl |-> trl]

Component(part_number, manufacturer, category, lifecycle, trl) ==
  [part_number |-> part_number, manufacturer |-> manufacturer, category |-> category,
   lifecycle |-> lifecycle, datasheet_url |-> << >>, availability |-> << >>,
   supply_chain |-> << >>, specifications |-> << >>, applications |-> << >>,
   trl |-> trl]

Offer(name, stock, region) == [name |-> name, stock |-> stock, region |-> region]

SupplyRecord(part_number, lifecycle, availability) ==
  [part_number |-> part_number, lifecycle |-> lifecycle, availability |-> availability]

\* a paper that passes every filter and names patent US1
pap_good == Paper(D_x, T_gan_fet, <<A_lee>>, <<"U","S","1"," ">> \o Pad(50), 2024, Absent)
\* the same DOI with another abstract; its year is null
pap_dup == Paper(D_x, T_sic_diode, <<A_lee>>, <<"g","a","n"," ">> \o Pad(50), NoneInt, Absent)
\* no DOI, a null abstract
pap_null == Paper(<< >>, T_gan_fet, <<A_lee>>, NoneStr, 2019, Absent)
\* already classified, no year
pap_old == Paper(D_y, T_gan_fet, <<A_lee>>, <<"g","a","n"," ">> \o Pad(50), 0, 3)

PaperPool == {pap_good, pap_dup, pap_null, pap_old}

pat_good == Patent(N_US1, T_gate_driver, <<"g","a","n">>, S_Granted, F_2024, Absent)
pat_pend == Patent(N_EP2, T_gan_fet, <<"x">>, S_Pending, F_2019, Absent)
pat_nokey == Patent(<< >>, T_gan_fet, <<"x">>, S_Granted, F_2019, Absent)

PatentPool == {pat_good, pat_pend, pat_nokey}

cmp_active == Component(PN_1, M_Infineon, Cat_FET, L_Active, Absent)
\* carries a trl of its own: 0
cmp_zero == Component(PN_2, M_Acme, AbsentStr, L_NRND, 0)
\* carries a trl of its own, 12, and a null category
cmp_odd == Component(PN_1, M_Acme, NoneStr, L_Obsolete, 12)

\* obsolete, classified 9 by its source, with an empty category
cmp_obsolete == Component(PN_2, M_Acme, << >>, L_Obsolete, 9)

\* no part number
cmp_nokey == Component(<< >>, M_Infineon, Cat_FET, L_Active, Absent)

ComponentPool == {cmp_active, cmp_zero, cmp_odd, cmp_obsolete, cmp_nokey}

sc_eu == SupplyRecord(PN_1, L_Active, << Offer(Dist_digikey, 6000, R_EU) >>)
sc_us == SupplyRecord(PN_1, L_NRND, << Offer(Dist_mouser, 10, R_US) >>)

SupplyPool == {sc_eu, sc_us}

Query(query, entities, regions) ==
  [query |-> query, entities |-> entities, regions |-> regions]

QueryPool == { Query(Q_gan_fet, << <<E_GaN>> >>, <<R_EU, R_Asia>>),
               Query(Q_ldo, << >>, <<R_US>>) }

NoAux == [op |-> "none", raised |-> FALSE, input |-> NoResults, output |-> NoResults]

\* raw_results of a run: each provider either failed ("data": None) or gave a list
RawOf(np, nt, nc, ns, failed) ==
  [papers       |-> [data_ok |-> "papers" \notin failed, list |-> [i \in 1..np |-> i]],
   patents      |-> [data_ok |-> "patents" \notin failed, list |-> [i \in 1..nt |-> i]],
   components   |-> [data_ok |-> "components" \notin failed, list |-> [i \in 1..nc |-> i]],
   supply_chain |-> [data_ok |-> "supply_chain" \notin failed, list |-> [i \in 1..ns |-> i]]]

Start(P, T, C, S, q, failed) ==
  /\ objs = [papers |-> P, patents |-> T, components |-> C, supply_chain |-> S]
  /\ raw = RawOf(Len(P), Len(T), Len(C), Len(S), failed)
  /\ qu = q
  /\ stage = 0
  /\ outcome = "running"
  /\ res = NoResults
  /\ prev = NoResults
  /\ synthesis = NoSynthesis
  /\ report = << >>
  /\ ret = NoReturn
  /\ aux = NoAux
  /\ cancel = FALSE

Init ==
  \E np \in 0..MaxRecords : \E nt \in 0..(MaxRecords - np) :
  \E nc \in 0..(MaxRecords - np - nt) : \E ns \in 0..(MaxRecords - np - nt - nc) :
  \E P \in [1..np -> PaperPool] : \E T \in [1..nt -> PatentPool] :
  \E C \in [1..nc -> ComponentPool] : \E S \in [1..ns -> SupplyPool] :
  \E q \in QueryPool :
  \E failed \in {F \in SUBSET Lanes : Cardinality(F) <= MaxFailed} :
    /\ ("papers" \in failed => np = 0)
    /\ ("patents" \in failed => nt = 0)
    /\ ("components" \in failed => nc = 0)
    /\ ("supply_chain" \in failed => ns = 0)
    /\ Start(P, T, C, S, q, failed)

----------------------------------------------------------------------------
(* process(): one action per stage; an exception in a stage ends the run in *)
(* the except branch                                                        *)

Raise ==
  /\ outcome' = "error"
  /\ ret' = ErrorReturn(raw)
  /\ UNCHANGED <<raw, objs, qu, stage, res, prev, synthesis, report, aux, cancel>>

Advance(r) ==
  /\ stage' = stage + 1
  /\ prev' = res
  /\ res' = r
  /\ UNCHANGED <<raw, qu, outcome, synthesis, report, ret, aux, cancel>>

Stage1 ==
  /\ outcome = "running" /\ stage = 0
  /\ IF _deduplicate_raises(raw) THEN Raise
     ELSE Advance(_deduplicate(raw, objs)) /\ UNCHANGED objs

Stage2 ==
  /\ outcome = "running" /\ stage = 1
  /\ IF _filter_quality_raises(res, objs) THEN Raise
     ELSE Advance(_filter_quality(res, objs)) /\ UNCHANGED objs

Stage3 ==
  /\ outcome = "running" /\ stage = 2
  /\ Advance(_filter_relevance(res, objs, qu)) /\ UNCHANGED objs

Stage4 ==
  /\ outcome = "running" /\ stage = 3
  /\ Advance(_filter_regional(res, objs, qu)) /\ UNCHANGED objs

Stage5 ==
  /\ outcome = "running" /\ stage = 4
  /\ Advance(res) /\ objs' = _classify_trl(res, objs)

Stage6 ==
  /\ outcome = "running" /\ stage = 5
  /\ IF _cross_reference_raises(res, objs) THEN Raise
     ELSE Advance(_cross_reference(res, objs)) /\ UNCHANGED objs

Stage7 ==
  /\ outcome = "running" /\ stage = 6
  /\ IF _rank_results_raises(res, objs) THEN Raise
     ELSE /\ stage' = stage + 1
          /\ prev' = res
          /\ res' = _rank_results(res, objs)
          /\ raw' = raw_after_rank(raw, res, objs)
          /\ UNCHANGED <<objs, qu, outcome, synthesis, report, ret, aux, cancel>>

Stage8 ==
  /\ outcome = "running" /\ stage = 7
  /\ Advance(_cluster_results(res, objs)) /\ UNCHANGED objs

Stage9 ==
  /\ outcome = "running" /\ stage = 8
  /\ IF _synthesize_findings_raises(res, objs) THEN Raise
     ELSE /\ stage' = 9
          /\ synthesis' = _synthesize_findings(res, objs)
          /\ UNCHANGED <<raw, objs, qu, outcome, res, prev, report, ret, aux, cancel>>

Stage10 ==
  /\ outcome = "running" /\ stage = 9
  /\ stage' = 10
  /\ report' = _generate_report(synthesis)
  /\ outcome' = "complete"
  /\ ret' = CompleteReturn(res, synthesis, report')
  /\ UNCHANGED <<raw, objs, qu, res, prev, synthesis, aux, cancel>>

Process ==
  \/ Stage1 \/ Stage2 \/ Stage3 \/ Stage4 \/ Stage5
  \/ Stage6 \/ Stage7 \/ Stage8 \/ Stage9 \/ Stage10

Next == Process

Spec == Init /\ [][Next]_vars

----------------------------------------------------------------------------
(* Cancellation of the process() coroutine. CancelledError is no Exception, *)
(* so the handler of process() does not catch it; it is raised at a point   *)
(* where the coroutine is suspended. process() awaits only _classify_trl,   *)
(* which awaits nothing: once started, the coroutine runs to its return.    *)

\* a cancellation that hands the caller the results built so far
CancelledReturn_results_so_far ==
  [kind |-> "result", processed_results |-> res, synthesis |-> synthesis,
   report |-> report, pipeline_stages |-> stage, total_findings |-> 0]

\* what the caller of a cancelled coroutine gets: CancelledError, no value
CancelledReturn ==
  [kind |-> "cancelled", processed_results |-> NoResults, synthesis |-> NoSynthesis,
   report |-> << >>, pipeline_stages |-> 0, total_findings |-> 0]

\* a cancellation is requested while the invocation is under way
RequestCancel ==
  /\ outcome = "running" /\ ~cancel
  /\ cancel' = TRUE
  /\ UNCHANGED <<raw, objs, qu, stage, outcome, res, prev, synthesis, report, ret, aux>>

\* the request came before the coroutine's first step: it never starts
RaiseCancelled ==
  /\ cancel /\ outcome = "running" /\ stage = 0
  /\ outcome' = "cancelled"
  /\ ret' = CancelledReturn
  /\ UNCHANGED <<raw, objs, qu, stage, res, prev, synthesis, report, aux, cancel>>

\* the request came while the coroutine ran inside a task: the task is
\* cancelled when the coroutine returns, and its return value is dropped
\* (a request that reaches the task after the return leaves the value alone)
DropReturnValue ==
  /\ cancel /\ outcome \in {"complete", "error"}
  /\ outcome' = "cancelled"
  /\ ret' = CancelledReturn
  /\ UNCHANGED <<raw, objs, qu, stage, res, prev, synthesis, report, aux, cancel>>

NextCancel == Process \/ RequestCancel \/ RaiseCancelled \/ DropReturnValue

SpecCancel == Init /\ [][NextCancel]_vars

----------------------------------------------------------------------------
(* The stage functions applied on their own: each takes the lists of the   *)
(* initial state as its `results` argument.                                *)

MaxLaneLen == 3

Q_gan_vs == <<"g","a","n"," ","f","e","t"," ","v","s"," ","g","a","n"," ","l","d","o">>
Q_ldo_stage == <<"l","d","o"," ","p","o","w","e","r"," ","s","t","a","g","e">>
E_GAN == <<"G","A","N">>
T_gan_fet_lower == <<"g","a","n"," ","f","e","t">>
T_ldo == <<"l","d","o">>
Dist_lcsc == <<"l","c","s","c">>

UnitPaperPool ==
  { pap_good,
    \* Scenario A: the DOI of pap_good, another abstract
    Paper(D_x, T_sic_diode, <<A_lee>>, <<"g","a","n"," ">> \o Pad(50), 2020, Absent),
    \* no DOI: the key is the hash of the lower-cased title
    Paper(<< >>, T_gan_fet, <<A_lee>>, Pad(51), 2021, Absent),
    Paper(<< >>, T_gan_fet_lower, << >>, Pad(51), 2022, Absent),
    \* an abstract of exactly 50 characters
    Paper(D_y, T_sic_diode, <<A_lee>>, Pad(50), 2023, Absent),
    \* no title
    Paper(<< >>, << >>, <<A_lee>>, Pad(51), 0, Absent),
    \* a null abstract
    Paper(D_y, T_ldo, <<A_lee>>, NoneStr, 2019, Absent) }

UnitPatentPool ==
  { pat_good,
    Patent(N_US1, T_gan_fet, <<"x">>, S_Pending, F_2019, Absent),
    Patent(N_EP2, T_gan_fet, << >>, S_Pending, F_2019, Absent),
    Patent(<< >>, T_gan_fet, <<"x">>, S_Granted, F_2019, Absent),
    Patent(N_EP2, << >>, <<"l","d","o">>, S_Granted, F_2024, Absent) }

UnitComponentPool ==
  { cmp_active,
    Component(PN_1, M_Acme, AbsentStr, L_NRND, Absent),
    Component(PN_2, << >>, Cat_FET, L_Active, Absent),
    Component(<< >>, M_Acme, Cat_FET, L_Active, Absent) }

UnitSupplyPool ==
  { sc_eu, sc_us,
    SupplyRecord(PN_2, L_Active, << Offer(Dist_mouser, 0, R_US), Offer(Dist_lcsc, 700, R_Asia) >>),
    SupplyRecord(PN_2, L_Obsolete, << >>) }

UnitQueryPool ==
  { Query(Q_gan_fet, << <<E_GAN>> >>, <<R_EU, R_Asia>>),
    Query(Q_gan_vs, << >>, <<R_US>>),
    Query(Q_ldo_stage, << << >>, <<E_GAN>> >>, <<R_Asia>>),
    Query(<< >>, << >>, << >>) }

UnitPool(lane) ==
  CASE lane = "papers" -> UnitPaperPool
    [] lane = "patents" -> UnitPatentPool
    [] lane = "components" -> UnitComponentPool
    [] lane = "supply_chain" -> UnitSupplyPool

\* one lane holds records, the others are empty lists
InitUnit ==
  \E lane \in Lanes : \E n \in 0..MaxLaneLen : \E L \in [1..n -> UnitPool(lane)] :
  \E q \in UnitQueryPool :
    Start(IF lane = "papers" THEN L ELSE << >>,
          IF lane = "patents" THEN L ELSE << >>,
          IF lane = "components" THEN L ELSE << >>,
          IF lane = "supply_chain" THEN L ELSE << >>, q, {})

\* a deduplicated result in the shape _deduplicate reads
Rewrap(r) ==
  [papers       |-> [data_ok |-> TRUE, list |-> r.papers],
   patents      |-> [data_ok |-> TRUE, list |-> r.patents],
   components   |-> [data_ok |-> TRUE, list |-> r.components],
   supply_chain |-> [data_ok |-> TRUE, list |-> r.supply_chain]]

Applied(op, raised, input, output) ==
  /\ aux.op = "none" /\ stage = 0 /\ outcome = "running"
  /\ aux' = [op |-> op, raised |-> raised, input |-> input, output |-> output]
  /\ UNCHANGED <<raw, objs, qu, stage, outcome, res, prev, synthesis, report, ret, cancel>>

ApplyDeduplicate ==
  /\ ~_deduplicate_raises(raw)
  /\ Applied("_deduplicate", FALSE, RawLists(raw), _deduplicate(raw, objs))

\* _deduplicate run on what _deduplicate returned
ApplyDeduplicateTwice ==
  /\ ~_deduplicate_raises(raw)
  /\ LET once == _deduplicate(raw, objs)
     IN Applied("_deduplicate twice", FALSE, once, _deduplicate(Rewrap(once), objs))

ApplyFilterQuality ==
  LET r == RawLists(raw)
  IN IF _filter_quality_raises(r, objs)
     THEN Applied("_filter_quality", TRUE, r, NoResults)
     ELSE Applied("_filter_quality", FALSE, r, _filter_quality(r, objs))

\* a null query raises at .lower()
ApplyFilterRelevance ==
  /\ qu.query # NoneStr
  /\ Applied("_filter_relevance", FALSE, RawLists(raw),
             _filter_relevance(RawLists(raw), objs, qu))

\* a null region list raises at the membership test
ApplyFilterRegional ==
  /\ qu.regions # NoneStr
  /\ Applied("_filter_regional", FALSE, RawLists(raw),
             _filter_regional(RawLists(raw), objs, qu))

NextUnit ==
  \/ ApplyDeduplicate \/ ApplyDeduplicateTwice \/ ApplyFilterQuality
  \/ ApplyFilterRelevance \/ ApplyFilterRegional

SpecUnit == InitUnit /\ [][NextUnit]_vars

----------------------------------------------------------------------------
(* The TRL classifiers applied on their own: TRLProvider.fetch and the     *)
(* TRLClassifier methods on one record, TRLProvider.classify_batch on the   *)
(* lists.                                                                  *)

MaxBatch == 2

L_Unknown == <<"U","n","k","n","o","w","n">>
U_datasheet == <<"h","t","t","p","s",":","/","/","d">>
S_Granted_2020 == <<"G","r","a","n","t","e","d"," ","2","0","2","0">>
T_theoretical == <<"t","h","e","o","r","e","t","i","c","a","l"," ","m","o","d","e","l">>
T_concept == <<"c","o","n","c","e","p","t"," ","s","t","u","d","y">>
T_prototype == <<"p","r","o","t","o","t","y","p","e">>
T_mass == <<"m","a","s","s"," ","p","r","o","d","u","c","t","i","o","n"," ","p","r","o","v","e","n"," ","c","o","m","m","e","r","c","i","a","l"," ","d","e","p","l","o","y","e","d"," ","o","p","e","r","a","t","i","o","n","a","l">>
T_validated == <<"v","a","l","i","d","a","t","e","d">>
T_pilot == <<"p","i","l","o","t"," ","r","u","n">>
T_beta == <<"b","e","t","a">>
T_qualified == <<"q","u","a","l","i","f","i","e","d"," ","p","r","o","d","u","c","t","i","o","n">>
T_poc == <<"p","r","o","o","f"," ","o","f"," ","c","o","n","c","e","p","t">>

LifecyclePool == {L_Active, l_active, L_NRND, L_Obsolete, L_Unknown, << >>, AbsentStr, NoneStr}

OffersPool ==
  { << >>,
    << Offer(Dist_digikey, 50, R_US) >>,
    << Offer(Dist_digikey, 101, R_US) >>,
    << Offer(Dist_digikey, 1500, R_US) >>,
    << Offer(Dist_digikey, 1500, R_US), Offer(Dist_mouser, 0, R_US) >>,
    << Offer(Dist_digikey, 1000, R_US), Offer(Dist_mouser, 1, R_EU) >>,
    << Offer(Dist_digikey, 500, R_US), Offer(Dist_mouser, 500, R_EU) >>,
    << Offer(Dist_digikey, 60, R_US), Offer(Dist_mouser, 40, R_EU) >>,
    << Offer(Dist_digikey, 500, R_US), Offer(Dist_mouser, 500, R_EU),
       Offer(Dist_lcsc, 500, R_Asia) >> }

\* a component whose distributor offers sit under `availability`, under
\* `supply_chain`, or under both
TRLComponent(lifecycle, offers, field, datasheet_url, trl) ==
  [Component(PN_1, M_Acme, Cat_FET, lifecycle, trl) EXCEPT
     !.availability = IF field \in {"availability", "both"} THEN offers ELSE << >>,
     !.supply_chain = IF field \in {"supply_chain", "both"} THEN offers ELSE << >>,
     !.datasheet_url = datasheet_url]

TRLComponentPool ==
  { TRLComponent(lifecycle, offers, field, datasheet_url, Absent) :
      lifecycle \in LifecyclePool, offers \in OffersPool,
      field \in {"availability", "supply_chain", "both"},
      datasheet_url \in {<< >>, U_datasheet} }
  \cup ComponentPool

TRLTextPool ==
  {T_gan_fet, T_theoretical, T_concept, T_prototype, T_mass, T_validated, T_pilot,
   T_beta, T_qualified, T_poc}

TRLPaperPool ==
  { Paper(D_x, title, <<A_lee>>, abstract, 2024, Absent) :
      title \in TRLTextPool, abstract \in {<< >>, NoneStr, T_prototype, T_qualified} }

TRLPatentPool ==
  { Patent(N_US1, title, << >>, status, F_2024, Absent) :
      title \in TRLTextPool,
      status \in {S_Granted, S_Pending, S_Granted_2020, << >>, AbsentStr, NoneStr} }

\* either one record of one kind, or short lists of every kind
InitTRL ==
  \/ \E c \in TRLComponentPool : Start(<< >>, << >>, <<c>>, << >>, Query(<< >>, << >>, << >>), {})
  \/ \E p \in TRLPaperPool : Start(<<p>>, << >>, << >>, << >>, Query(<< >>, << >>, << >>), {})
  \/ \E t \in TRLPatentPool : Start(<< >>, <<t>>, << >>, << >>, Query(<< >>, << >>, << >>), {})
  \/ \E np \in 0..MaxBatch : \E nt \in 0..(MaxBatch - np) : \E nc \in 0..(MaxBatch - np - nt) :
     \E P \in [1..np -> {pap_good, pap_old, Paper(D_y, T_mass, <<A_lee>>, << >>, 2020, Absent)}] :
     \E T \in [1..nt -> {pat_good, pat_pend, Patent(N_EP2, T_pilot, << >>, NoneStr, F_2019, Absent)}] :
     \E C \in [1..nc -> ComponentPool \cup {TRLComponent(NoneStr, << >>, "both", << >>, Absent),
                                           TRLComponent(L_Unknown, << >>, "both", << >>, Absent)}] :
       /\ np + nt + nc >= 2
       /\ Start(P, T, C, << >>, Query(<< >>, << >>, << >>), {})

\* the single record of the initial state and its kind
single_kind ==
  IF Len(objs.components) = 1 THEN "component"
  ELSE IF Len(objs.papers) = 1 THEN "paper" ELSE "patent"

single_record ==
  IF Len(objs.components) = 1 THEN objs.components[1]
  ELSE IF Len(objs.papers) = 1 THEN objs.papers[1] ELSE objs.patents[1]

is_single == Len(objs.papers) + Len(objs.patents) + Len(objs.components) = 1

ProviderFetch ==
  /\ is_single
  /\ LET result == fetch(single_kind, single_record)
     IN Applied("TRLProvider.fetch", ~result.success, single_record, result.data)

ToolClassify ==
  /\ is_single /\ single_kind = "component"
  /\ IF classify_raises(single_record)
     THEN Applied("TRLClassifier.classify", TRUE, single_record, Absent)
     ELSE Applied("TRLClassifier.classify", FALSE, single_record, classify(single_record))

ToolClassifyFromPaper ==
  /\ is_single /\ single_kind = "paper"
  /\ Applied("TRLClassifier.classify_from_paper", FALSE, single_record,
             classify_from_paper(single_record))

ToolClassifyFromPatent ==
  /\ is_single /\ single_kind = "patent"
  /\ IF classify_from_patent_raises(single_record)
     THEN Applied("TRLClassifier.classify_from_patent", TRUE, single_record, Absent)
     ELSE Applied("TRLClassifier.classify_from_patent", FALSE, single_record,
                  classify_from_patent(single_record))

ClassifyBatch ==
  /\ ~is_single
  /\ Applied("TRLProvider.classify_batch", FALSE, objs,
             classify_batch(objs.components, objs.papers, objs.patents))

NextTRL ==
  \/ ProviderFetch \/ ToolClassify \/ ToolClassifyFromPaper \/ ToolClassifyFromPatent
  \/ ClassifyBatch

SpecTRL == InitTRL /\ [][NextTRL]_vars

----------------------------------------------------------------------------
(* The pipeline on result lists around the stage-7 list caps.              *)

MaxOver == 2

\* how many records a lane holds: one, or a count around its cap
AroundCap(cap) == {1} \cup ((cap - 1)..(cap + MaxOver))

\* paper i of n: its own DOI and title; the paper at `citing` names patent US1
CapPaper(i, citing, year) ==
  Paper(D_x \o Pad(i), T_gan_fet \o <<" ">> \o Pad(i), <<A_lee>>,
        (IF i = citing THEN <<"U","S","1"," ">> ELSE << >>) \o Pad(51), year, Absent)

\* patent k: US1, US1x, US1xx, ...; filed in the year 2000 + k
CapPatent(k) ==
  Patent(N_US1 \o Pad(k - 1), T_gate_driver, <<"g","a","n">>, S_Granted,
         <<"2","0">> \o (IF k < 10 THEN <<"0">> ELSE << >>)
           \o (IF k >= 30 THEN <<"3">> ELSE IF k >= 20 THEN <<"2">>
               ELSE IF k >= 10 THEN <<"1">> ELSE << >>)
           \o <<CharOrder[5 + (k % 10)]>>,
         Absent)

\* component k: its own part number; the first `active` are Active
CapComponent(k, active) ==
  Component(PN_1 \o Pad(k), M_Infineon, Cat_FET,
            IF k <= active THEN L_Active ELSE L_NRND, Absent)

InitCaps ==
  \E np \in AroundCap(PAPER_TOP) : \E citing \in {1, np} :
  \E newest_first \in BOOLEAN :
  \E nt \in {1, PATENT_TOP + 1} : \E nc \in {1, COMPONENT_TOP + 1} :
  \E active \in {0, 1} :
    Start([i \in 1..np |-> CapPaper(i, citing, IF newest_first THEN 2030 - i ELSE 2000 + i)],
          [k \in 1..nt |-> CapPatent(k)],
          [k \in 1..nc |-> CapComponent(k, active)],
          << >>, Query(Q_gan_fet, << <<E_GaN>> >>, <<R_EU, R_Asia>>), {})

SpecCaps == InitCaps /\ [][Next]_vars

----------------------------------------------------------------------------
(* Properties *)

\* the identity key of a record of a lane
IdentityKey(lane, record) ==
  CASE lane = "papers" -> IF Truthy(record.doi) THEN record.doi
                          ELSE md5(Lower(record.title))
    [] lane = "patents" -> record.patent_number
    [] OTHER -> record.part_number

KeyAt(lane, list, i) == IdentityKey(lane, objs[lane][list[i]])

\* the records of a list whose key no earlier record of the list has
KeepFirsts(lane, list) ==
  LET idx == SelectSeq([i \in 1..Len(list) |-> i],
               LAMBDA i : \A j \in 1..(i - 1) : KeyAt(lane, list, j) # KeyAt(lane, list, i))
  IN [k \in 1..Len(idx) |-> list[idx[k]]]

Present(x) == x \notin {<< >>, NoneStr, AbsentStr}

\* C1: a run that hit an internal fault ends in an error outcome whose returned
\* value carries no per-type lists and no synthesis
C1_ErrorReturnCarriesNoData ==
  outcome = "error" =>
    /\ ret.kind = "error"
    /\ \A lane \in Lanes : ret.processed_results[lane] = << >>
    /\ ret.synthesis = NoSynthesis

\* C2: in the result of a completed run, the paper and patent of every
\* paper_to_patent edge and the patent and component of every
\* patent_to_component edge are records of the returned lists
C2_NoDanglingEdges ==
  outcome = "complete" =>
    LET out == ret.processed_results
        titles == {objs.papers[out.papers[i]].title : i \in 1..Len(out.papers)}
        numbers == {objs.patents[out.patents[i]].patent_number : i \in 1..Len(out.patents)}
        parts == {objs.components[out.components[i]].part_number :
                    i \in 1..Len(out.components)}
        x == out.cross_references
    IN /\ \A e \in 1..Len(x.paper_to_patent) :
            /\ x.paper_to_patent[e].paper \in titles
            /\ x.paper_to_patent[e].patent \in numbers
       /\ \A e \in 1..Len(x.patent_to_component) :
            /\ x.patent_to_component[e].patent \in numbers
            /\ x.patent_to_component[e].component \in parts

\* C3: after stage 1 no two records of a list share an identity key, for
\* papers, patents, components and supply-chain records
C3_UniqueKeysAfterStage1 ==
  (stage = 1 /\ outcome = "running") =>
    \A lane \in Lanes :
      \A i, j \in 1..Len(res[lane]) :
        i # j => KeyAt(lane, res[lane], i) # KeyAt(lane, res[lane], j)

\* C4: every paper, patent and component in the result of a completed run has
\* a TRL in 1..9, and so has every TRL a classifier returns
C4_TrlInRange ==
  /\ outcome = "complete" =>
       \A lane \in {"papers", "patents", "components"} :
         \A i \in 1..Len(ret.processed_results[lane]) :
           objs[lane][ret.processed_results[lane][i]].trl \in 1..9
  /\ (aux.op = "TRLClassifier.classify" /\ ~aux.raised) => aux.output \in 1..9
  /\ (aux.op = "TRLProvider.fetch" /\ ~aux.raised) =>
       aux.output.trl \in 1..9 /\ aux.output.confidence \in 0..100

\* C5: deduplicating the output of a deduplication gives that output again,
\* list by list (the output is handed back in the shape stage 1 reads)
C5_DeduplicateIdempotent ==
  aux.op = "_deduplicate twice" => aux.output = aux.input

\* a second run after a first run that removed a paper, a patent or a component
C5_Witness ==
  /\ aux.op = "_deduplicate twice"
  /\ \/ Len(aux.input.papers) \in 1..(Len(raw.papers.list) - 1)
     \/ Len(aux.input.patents) \in 1..(Len(raw.patents.list) - 1)
     \/ Len(aux.input.components) \in 1..(Len(raw.components.list) - 1)

\* C6: the deduplicated list of every entity type is the input list without
\* the records that have an earlier record of the same key: same records, same
\* order
C6_RemovesExactlyLaterDuplicates ==
  aux.op = "_deduplicate" =>
    \A lane \in Lanes : aux.output[lane] = KeepFirsts(lane, aux.input[lane])

\* C7: the nine histogram counts add up to the number of classified papers,
\* patents and components that carry a TRL, in the synthesis of a completed
\* run and in a batch classification
C7_HistogramSum ==
  /\ outcome = "complete" =>
       LET out == ret.processed_results
           defined(lane) ==
             CountIdx(Len(out[lane]),
                      LAMBDA i : objs[lane][out[lane][i]].trl \notin {Absent, NoneInt})
       IN SumSeq(ret.synthesis.trl_distribution)
            = defined("papers") + defined("patents") + defined("components")
  /\ aux.op = "TRLProvider.classify_batch" =>
       SumSeq(aux.output.distribution) = Len(aux.output.classifications)

QueryTerms(q) == Split(Lower(q.query))

EntityList(q) ==
  LET RECURSIVE Flat(_)
      Flat(g) == IF g = 0 THEN << >> ELSE Flat(g - 1) \o q.entities[g]
  IN [i \in 1..Len(Flat(Len(q.entities))) |-> Lower(Flat(Len(q.entities))[i])]

\* score with every occurrence in the lists counted
ScoreWithRepeats(item, q) ==
  LET text == TitleAbstract(item)
  IN CountIdx(Len(QueryTerms(q)), LAMBDA i : Contains(QueryTerms(q)[i], text))
     + CountIdx(Len(EntityList(q)), LAMBDA i : Contains(EntityList(q)[i], text))

\* score with every distinct term and entity counted once
ScoreDistinct(item, q) ==
  LET text == TitleAbstract(item)
  IN Cardinality({w \in SeqRange(QueryTerms(q)) : Contains(w, text)})
     + Cardinality({e \in SeqRange(EntityList(q)) : Contains(e, text)})

\* C9 (as stated): a paper or patent is kept iff the number of distinct query
\* terms and distinct entities found in its text is at least 0.3 times the
\* number of query terms
C9_KeptIffDistinctScore ==
  aux.op = "_filter_relevance" =>
    /\ aux.output.papers =
         SelectSeq(aux.input.papers,
           LAMBDA i : ScoreDistinct(objs.papers[i], qu) * 10 >= Len(QueryTerms(qu)) * 3)
    /\ aux.output.patents =
         SelectSeq(aux.input.patents,
           LAMBDA i : ScoreDistinct(objs.patents[i], qu) * 10 >= Len(QueryTerms(qu)) * 3)

\* C9 (amended): a paper or patent is kept iff its score is at least 0.3
\* times the number of query terms, where the score counts every query term
\* and every extracted entity found in the text once per occurrence in the
\* query's term list and entity lists
C9_KeptIffScoreWithRepeats ==
  aux.op = "_filter_relevance" =>
    /\ aux.output.papers =
         SelectSeq(aux.input.papers,
           LAMBDA i : ScoreWithRepeats(objs.papers[i], qu) * 10 >= Len(QueryTerms(qu)) * 3)
    /\ aux.output.patents =
         SelectSeq(aux.input.patents,
           LAMBDA i : ScoreWithRepeats(objs.patents[i], qu) * 10 >= Len(QueryTerms(qu)) * 3)

\* a record kept on a repeated term alone: its distinct score is below the bar
C9_Witness ==
  /\ aux.op = "_filter_relevance"
  /\ \E i \in SeqRange(aux.output.papers) :
       ScoreDistinct(objs.papers[i], qu) * 10 < Len(QueryTerms(qu)) * 3
  /\ \E i \in SeqRange(aux.input.papers) : i \notin SeqRange(aux.output.papers)

\* C10: the TRL a classifier gives a component that carries none follows the
\* table: Active -> 9 / 8 / 7 by stock and stocked distributors, NRND -> 8,
\* Obsolete -> 9, no lifecycle and no supply data -> at least 7 with a
\* datasheet URL and 5 without
C10_ComponentPathTable ==
  (/\ aux.op \in {"TRLProvider.fetch", "TRLClassifier.classify"}
   /\ Len(objs.components) = 1 /\ ~aux.raised /\ aux.input.trl = Absent) =>
    LET c == aux.input
        trl == IF aux.op = "TRLProvider.fetch" THEN aux.output.trl ELSE aux.output
        lifecycle == Lower(GetOr(c.lifecycle, << >>))
        offers == IF c.supply_chain # << >> THEN c.supply_chain ELSE c.availability
        stock == SumSeq([d \in 1..Len(offers) |-> offers[d].stock])
        stocked == Cardinality({d \in 1..Len(offers) : offers[d].stock > 0})
    IN /\ lifecycle = l_active =>
            trl = IF stock > 1000 /\ stocked >= 2 THEN 9
                  ELSE IF stock > 100 THEN 8 ELSE 7
       /\ lifecycle = l_nrnd => trl = 8
       /\ lifecycle = l_obsolete => trl = 9
       /\ (lifecycle \notin {l_active, l_nrnd, l_obsolete} /\ offers = << >>) =>
            IF Present(c.datasheet_url) THEN trl >= 7 ELSE trl = 5

\* the highest level of 1..9 above `low` with an indicator of `table` in the
\* lower-cased title + " " + abstract of a record, 0 when there is none
HighestMatch(table, low, item) ==
  LET text == Lower(Fmt(item.title) \o <<" ">> \o Fmt(item.abstract))
      hit == {t \in (low + 1)..9 :
                \E k \in 1..Len(table[t]) : Contains(table[t][k], text)}
  IN IF hit = {} THEN 0 ELSE CHOOSE t \in hit : \A u \in hit : u <= t

\* the TRL a finished paper or patent classification reports
ReportedTrl == IF aux.op = "TRLProvider.fetch" THEN aux.output.trl ELSE aux.output

\* the indicator table of the classifier that ran
TableUsed ==
  IF aux.op = "TRLProvider.fetch" THEN provider_trl_indicators ELSE tool_trl_indicators

PaperClassified ==
  /\ aux.op \in {"TRLProvider.fetch", "TRLClassifier.classify_from_paper"}
  /\ Len(objs.papers) = 1 /\ ~aux.raised

\* C11: a paper's TRL is the highest level 9..1 with an indicator match in
\* title + abstract, clamped to 6, and 2 when no indicator matches; so it lies
\* in 1..6, and "proof of concept" alone gives 3
C11_PaperScanClampedAtSix ==
  PaperClassified =>
    LET level == HighestMatch(TableUsed, 0, aux.input)
    IN /\ ReportedTrl = IF level = 0 THEN 2 ELSE Min(level, 6)
       /\ ReportedTrl \in 1..6
       /\ (aux.input.title = T_poc /\ aux.input.abstract = << >>) => ReportedTrl = 3

PatentClassified ==
  /\ aux.op \in {"TRLProvider.fetch", "TRLClassifier.classify_from_patent"}
  /\ Len(objs.patents) = 1 /\ ~aux.raised

\* the base TRL of a patent's status: 5 for a granted one, 4 for any other
StatusBase(patent) ==
  IF Contains(s_granted, Lower(GetOr(patent.status, << >>))) THEN 5 ELSE 4

\* C12: a patent's TRL is its status base (Granted 5, otherwise 4) replaced by
\* the highest level 9..base+1 with an indicator match in title + abstract,
\* capped at 7; so it lies in 4..7 and is never below the base
C12_PatentBaseUpgradeCappedAtSeven ==
  PatentClassified =>
    LET base == StatusBase(aux.input)
        level == HighestMatch(TableUsed, base, aux.input)
    IN /\ ReportedTrl = Min(IF level = 0 THEN base ELSE level, 7)
       /\ ReportedTrl \in 4..7
       /\ ReportedTrl >= base

\* how many indicators of level `level` of `table` occur in the record's text
MatchedKeywords(table, level, item) ==
  LET text == Lower(Fmt(item.title) \o <<" ">> \o Fmt(item.abstract))
  IN IF level = 0 THEN 0
     ELSE Cardinality({k \in 1..Len(table[level]) : Contains(table[level][k], text)})

PaperFetched ==
  aux.op = "TRLProvider.fetch" /\ Len(objs.papers) = 1 /\ ~aux.raised

\* C13 (as stated): a paper's confidence is min(0.8, 0.6 + 0.05 * k), k the
\* number of matched indicator keywords, k = 0 when nothing matches
C13_PaperConfidenceFromSixty ==
  PaperFetched =>
    LET level == HighestMatch(provider_trl_indicators, 0, aux.input)
        k == MatchedKeywords(provider_trl_indicators, level, aux.input)
    IN aux.output.confidence = Min(80, 60 + 5 * k)

\* C13 (amended): a paper's confidence is 0.5 when no indicator matches, and
\* otherwise min(0.8, 0.6 + 0.05 * k), k >= 1 the number of keywords of the
\* winning level found in title + abstract
C13_PaperConfidenceHalfWithoutMatch ==
  PaperFetched =>
    LET level == HighestMatch(provider_trl_indicators, 0, aux.input)
        k == MatchedKeywords(provider_trl_indicators, level, aux.input)
    IN aux.output.confidence = IF level = 0 THEN 50 ELSE Min(80, 60 + 5 * k)

\* a paper without any indicator in its text, classified with confidence 0.5
C13_Witness ==
  /\ PaperFetched
  /\ HighestMatch(provider_trl_indicators, 0, aux.input) = 0
  /\ aux.output.confidence = 50 /\ aux.output.trl = 2

PatentFetched ==
  aux.op = "TRLProvider.fetch" /\ Len(objs.patents) = 1 /\ ~aux.raised

\* C14: a patent's confidence is 0.7 when granted and 0.6 otherwise, plus 0.1
\* exactly when an indicator of a level above the base replaced the base TRL,
\* and at most 0.85; a Pending patent without indicator match gets TRL 4 and
\* confidence 0.6
C14_PatentConfidence ==
  PatentFetched =>
    LET base == StatusBase(aux.input)
        upgraded == HighestMatch(provider_trl_indicators, base, aux.input) # 0
    IN /\ aux.output.confidence =
            Min(85, (IF base = 5 THEN 70 ELSE 60) + (IF upgraded THEN 10 ELSE 0))
       /\ (aux.input.status = S_Pending /\ ~upgraded) =>
            (aux.output.trl = 4 /\ aux.output.confidence = 60)

\* a Pending patent upgraded by an indicator: confidence 0.6 + 0.1
C14_Witness ==
  /\ PatentFetched
  /\ aux.input.status = S_Pending
  /\ HighestMatch(provider_trl_indicators, 4, aux.input) # 0
  /\ aux.output.trl > 4 /\ aux.output.confidence = 70

ComponentFetched ==
  aux.op = "TRLProvider.fetch" /\ Len(objs.components) = 1 /\ ~aux.raised

\* a component with stock 1500 spread over three distributors
StockOf1500AtThree(component) ==
  /\ Len(component.availability) = 3
  /\ \A d \in 1..3 : component.availability[d].stock > 0
  /\ SumSeq([d \in 1..3 |-> component.availability[d].stock]) = 1500

\* C15: a component's confidence is min(1.0, 0.6 + 0.2 for a lifecycle of
\* Active, NRND or Obsolete + 0.1 for a non-empty availability + 0.1 for a
\* datasheet URL); an Active component with stock 1500 at three distributors
\* gets TRL 9 and confidence at least 0.8
C15_ComponentConfidence ==
  ComponentFetched =>
    LET c == aux.input
        known == Lower(GetOr(c.lifecycle, << >>)) \in {l_active, l_nrnd, l_obsolete}
    IN /\ aux.output.confidence =
            Min(100, 60 + (IF known THEN 20 ELSE 0)
                        + (IF Len(c.availability) > 0 THEN 10 ELSE 0)
                        + (IF Present(c.datasheet_url) THEN 10 ELSE 0))
       /\ (c.lifecycle = L_Active /\ StockOf1500AtThree(c)) =>
            (aux.output.trl = 9 /\ aux.output.confidence >= 80)

\* an Active component with 1500 units at three distributors, classified
C15_Witness ==
  /\ ComponentFetched
  /\ aux.input.lifecycle = L_Active /\ StockOf1500AtThree(aux.input)
  /\ aux.output.trl = 9 /\ aux.output.confidence = 90

\* the ranking key of a paper: its year, an unknown year below every known one
YearKey(paper) == IF paper.year \in {NoneInt, Absent} THEN 0 ELSE paper.year

\* list `out` is the first `cap` entries of `inp` ordered by Higher, entries
\* that Higher does not separate staying in their order in `inp`
RankedPrefix(out, inp, cap, Higher(_, _)) ==
  LET pos(x) == CHOOSE i \in 1..Len(inp) : inp[i] = x
  IN /\ Len(out) = Min(Len(inp), cap)
     /\ \A i \in 1..Len(out) : out[i] \in SeqRange(inp)
     /\ \A i \in 1..(Len(out) - 1) :
          /\ ~Higher(out[i + 1], out[i])
          /\ Higher(out[i], out[i + 1]) \/ pos(out[i]) < pos(out[i + 1])
     /\ \A i \in 1..Len(inp) : inp[i] \notin SeqRange(out) =>
          \A j \in 1..Len(out) :
             /\ ~Higher(inp[i], out[j])
             /\ Higher(out[j], inp[i]) \/ pos(out[j]) < i

\* the Ranker's output, whenever it returns one, is the claimed prefix
RankedWhenReturned ==
  (outcome = "running" /\ stage = 7) =>
       /\ RankedPrefix(res.papers, prev.papers, PAPER_TOP,
            LAMBDA x, y : YearKey(objs.papers[x]) > YearKey(objs.papers[y]))
       /\ RankedPrefix(res.patents, prev.patents, PATENT_TOP,
            LAMBDA x, y : StrLess(objs.patents[y].filing_date, objs.patents[x].filing_date))
       /\ RankedPrefix(res.components, prev.components, COMPONENT_TOP,
            LAMBDA x, y : objs.components[x].trl > objs.components[y].trl)

\* C16: the Ranker returns, for every input that reaches it, per type the
\* top-k prefix of a stable descending sort: papers by year with an unknown
\* year last (k = 20), patents by filing_date (k = 20), components by TRL with
\* ties in input order (k = 30)
C16_RankedTopKOfStableSort ==
  /\ ~(outcome = "error" /\ stage = 6)
  /\ RankedWhenReturned

\* the composite score of a recommendation: TRL >= 8: 30, >= 6: 20, else 10;
\* Active: 25, NRND: 5; stock of its part number > 1000: 20, > 100: 10 (no
\* record here carries an efficiency specification)
CompositeScore(rec) ==
  LET sc == sc_map_lookup(rec.part_number, res.supply_chain, objs.supply_chain)
      stock == IF sc = 0 THEN 0 ELSE total_stock_of(objs.supply_chain[sc].availability)
  IN (IF rec.trl >= 8 THEN 30 ELSE IF rec.trl >= 6 THEN 20 ELSE 10)
     + (IF rec.lifecycle = L_Active THEN 25 ELSE IF rec.lifecycle = L_NRND THEN 5 ELSE 0)
     + (IF stock > 1000 THEN 20 ELSE IF stock > 100 THEN 10 ELSE 0)

\* C17: the component recommendations of the synthesis are the (at most) 5
\* surviving components of highest composite score, in descending order of
\* that score
C17_RecommendationsByCompositeScore ==
  synthesis.present =>
    LET recs == synthesis.component_recommendations
    IN /\ Len(recs) = Min(Len(res.components), RECOMMEND_TOP)
       /\ \A i \in 1..(Len(recs) - 1) :
            CompositeScore(recs[i]) >= CompositeScore(recs[i + 1])

\* C18: stage 4 removes no component whatever its manufacturer and the target
\* regions: components, papers and patents leave the RegionalFilter as the
\* same records in the same order
C18_RegionalFilterKeepsComponents ==
  aux.op = "_filter_regional" =>
    /\ aux.output.components = aux.input.components
    /\ aux.output.papers = aux.input.papers
    /\ aux.output.patents = aux.input.patents

\* the filter ran for targets EU and Asia on a component of a manufacturer on
\* neither list, next to one of a listed manufacturer
C18_Witness ==
  /\ aux.op = "_filter_regional"
  /\ qu.regions = <<R_EU, R_Asia>>
  /\ \E i, j \in SeqRange(aux.output.components) :
       /\ objs.components[i].manufacturer = M_Acme
       /\ objs.components[j].manufacturer = M_Infineon

\* some distributor entry of a supply-chain record carries a target region
HasOfferInRegions(record, regions) ==
  {d \in 1..Len(record.availability) :
     \E k \in 1..Len(regions) : record.availability[d].region = regions[k]} # {}

\* C19: the RegionalFilter keeps a supply-chain record iff at least one of its
\* distributor entries carries a region of the target set; a record without
\* distributor entries is dropped; the survivors keep their input order
C19_SupplyChainKeptIffOfferInRegion ==
  aux.op = "_filter_regional" =>
    /\ aux.output.supply_chain =
         SelectSeq(aux.input.supply_chain,
                   LAMBDA i : HasOfferInRegions(objs.supply_chain[i], qu.regions))
    /\ \A i \in SeqRange(aux.output.supply_chain) :
         objs.supply_chain[i].availability # << >>

\* the filter kept a record with one entry inside and one outside the target
\* regions, and dropped a record without entries and one with no entry inside
C19_Witness ==
  /\ aux.op = "_filter_regional"
  /\ \E i \in SeqRange(aux.output.supply_chain) :
       /\ Len(objs.supply_chain[i].availability) = 2
       /\ \E d \in 1..2 : objs.supply_chain[i].availability[d].region
                              \notin SeqRange(qu.regions)
  /\ \E i \in SeqRange(aux.input.supply_chain) \ SeqRange(aux.output.supply_chain) :
       objs.supply_chain[i].availability = << >>
  /\ \E i \in SeqRange(aux.input.supply_chain) \ SeqRange(aux.output.supply_chain) :
       objs.supply_chain[i].availability # << >>

\* the bucket the Clusterer owes a category: "Other" for a missing one (absent
\* or empty), the category itself otherwise
BucketOf(category) == IF category \in {AbsentStr, << >>} THEN C_Other ELSE category

\* C20: the Clusterer partitions the surviving components by category: every
\* component is in exactly one cluster, that of its category or "Other" when
\* the category is missing (absent or empty), and a cluster lists its
\* components in input order
C20_ClustersPartitionByCategory ==
  (outcome = "running" /\ stage = 8) =>
    LET clusters == res.component_clusters
    IN /\ \A i \in SeqRange(res.components) :
            /\ Cardinality({k \in 1..Len(clusters) :
                              i \in SeqRange(clusters[k].members)}) = 1
            /\ objs.components[i].category # NoneStr =>
                 \E k \in 1..Len(clusters) :
                    /\ clusters[k].category = BucketOf(objs.components[i].category)
                    /\ i \in SeqRange(clusters[k].members)
       /\ \A k \in 1..Len(clusters) :
            clusters[k].members =
              SelectSeq(res.components, LAMBDA i : i \in SeqRange(clusters[k].members))

BatchClassified == aux.op = "TRLProvider.classify_batch" /\ ~aux.raised

\* how many classifications of a batch carry a TRL in low..high
InPhase(low, high) ==
  Cardinality({i \in 1..Len(aux.output.classifications) :
                 aux.output.classifications[i].trl \in low..high})

SectionsOf(rep) == Tail(rep)

SectionOrder ==
  <<"Executive Summary", "Key Findings", "Technology Trends", "Recommended Components",
    "Supply Chain Status", "Technology Readiness Distribution", "Maturity Assessment">>

HasSection(rep, name) == \E i \in 1..Len(SectionsOf(rep)) : SectionsOf(rep)[i] = name

\* the sections stand in the fixed order, none twice
InSectionOrder(rep) ==
  LET secs == SectionsOf(rep)
      at(name) == CHOOSE k \in 1..Len(SectionOrder) : SectionOrder[k] = name
  IN /\ \A i \in 1..Len(secs) : \E k \in 1..Len(SectionOrder) : SectionOrder[k] = secs[i]
     /\ \A i \in 1..(Len(secs) - 1) : at(secs[i]) < at(secs[i + 1])

\* the six sections below the summary are rendered exactly for non-empty data
SectionsFollowData ==
  outcome = "complete" =>
    LET syn == ret.synthesis
    IN /\ Head(ret.report) = "EE Research Report"
       /\ InSectionOrder(ret.report)
       /\ HasSection(ret.report, "Key Findings") <=> syn.key_findings # << >>
       /\ HasSection(ret.report, "Technology Trends") <=> syn.technology_trends # << >>
       /\ HasSection(ret.report, "Recommended Components")
            <=> syn.component_recommendations # << >>
       /\ HasSection(ret.report, "Supply Chain Status")
            <=> ret.processed_results.supply_chain # << >>
       /\ HasSection(ret.report, "Technology Readiness Distribution")
            <=> SumSeq(syn.trl_distribution) > 0
       /\ HasSection(ret.report, "Maturity Assessment")
            <=> SumSeq(syn.trl_distribution) > 0

AllInputEmpty ==
  /\ objs.papers = << >> /\ objs.patents = << >>
  /\ objs.components = << >> /\ objs.supply_chain = << >>

\* C22: the report has its sections in the fixed order, a section is there
\* iff its data is non-empty, and for four empty input lists the synthesis has
\* zero counts and no findings and the report is the header alone
C22_SectionsIffDataAndHeaderOnly ==
  /\ SectionsFollowData
  /\ (outcome = "complete" /\ AllInputEmpty) =>
       /\ ret.synthesis.summary = [papers |-> 0, patents |-> 0, components |-> 0]
       /\ ret.synthesis.key_findings = << >>
       /\ ret.report = <<"EE Research Report">>

\* component i of the input lacks a part number
LacksPartNumber(i) == ~Present(objs.components[i].part_number)

\* C23: after the QualityFilter a component without part_number is in no
\* components list, no cluster, no cross-reference edge and no recommendation
\* of the results the stages hand on, nor of what a completed run returns
C23_NoPartNumberNowhereDownstream ==
  stage >= 2 =>
    /\ \A i \in SeqRange(res.components) : ~LacksPartNumber(i)
    /\ \A k \in 1..Len(res.component_clusters) :
         \A i \in SeqRange(res.component_clusters[k].members) : ~LacksPartNumber(i)
    /\ \A e \in SeqRange(res.cross_references.patent_to_component) : Present(e.component)
    /\ \A e \in SeqRange(res.cross_references.paper_to_component) : Present(e.component)
    /\ \A k \in 1..Len(synthesis.component_recommendations) :
         Present(synthesis.component_recommendations[k].part_number)
    /\ outcome = "complete" =>
         /\ \A k \in 1..Len(ret.synthesis.component_recommendations) :
              Present(ret.synthesis.component_recommendations[k].part_number)
         /\ \A i \in SeqRange(ret.processed_results.components) : ~LacksPartNumber(i)
         /\ \A k \in 1..Len(ret.processed_results.component_clusters) :
              \A i \in SeqRange(ret.processed_results.component_clusters[k].members) :
                 ~LacksPartNumber(i)

\* a completed run whose input held a component without part_number next to
\* one that is clustered, cross-referenced and recommended
C23_Witness ==
  /\ outcome = "complete"
  /\ \E i \in 1..Len(objs.components) : LacksPartNumber(i)
  /\ res.component_clusters # << >>
  /\ res.cross_references.patent_to_component # << >>
  /\ ret.synthesis.component_recommendations # << >>

OnlyLane(lane) ==
  [l \in Lanes |-> IF l = lane THEN raw[l] ELSE [data_ok |-> TRUE, list |-> << >>]]

\* the output of stage k (1..4) of the pipeline run on the raw input R
StagesUpTo(k, R) ==
  LET s1 == _deduplicate(R, objs)
      s2 == _filter_quality(s1, objs)
      s3 == _filter_relevance(s2, objs, qu)
      s4 == _filter_regional(s3, objs, qu)
  IN CASE k = 1 -> s1 [] k = 2 -> s2 [] k = 3 -> s3 [] k = 4 -> s4

\* through stages 1-4 a lane's list is what the stages make of that lane alone
LaneIndependence ==
  (outcome = "running" /\ stage \in 1..4) =>
    \A lane \in Lanes : res[lane] = StagesUpTo(stage, OnlyLane(lane))[lane]

\* a step runs the next stage, once, on the whole output of the stage before;
\* stage 5 starts from the stage-4 output of all four lanes
StageStep ==
  /\ stage' \in {stage, stage + 1}
  /\ stage' <= PIPELINE_STAGES
  /\ stage' = stage + 1 =>
       \/ stage' = 1
       \/ stage' \in 2..8 /\ prev' = res
       \/ stage' = 9 /\ res' = res /\ synthesis'.present
       \/ stage' = 10 /\ synthesis' = synthesis /\ ret'.synthesis = synthesis
  /\ (stage' = 5 /\ stage = 4) =>
       \A lane \in Lanes : res[lane] = StagesUpTo(4, raw)[lane]

\* C25: the stages of an invocation run in the order 1..10, each at most once
\* and on the whole output of the one before; stage 5 starts only after
\* stages 1-4 are done for all four lanes, and through stages 1-4 the output
\* for a lane does not depend on the records of the other lanes
C25_SequentialStagesIndependentLanes ==
  []LaneIndependence /\ [][StageStep]_vars

\* stage 4 is done with records in three lanes, two of which lost a record
C25_Witness ==
  /\ outcome = "running" /\ stage = 4
  /\ Cardinality({lane \in Lanes : raw[lane].list # << >>}) = 3
  /\ Cardinality({lane \in Lanes : Len(res[lane]) < Len(raw[lane].list)}) >= 2

\* C26: TRLClassifier.classify gives every component whose lifecycle is
\* Active a TRL of 7, 8 or 9, whatever its supply-chain data (checked on the
\* components classify computes a TRL for: those that carry none)
C26_ActiveAtLeastSeven ==
  (/\ aux.op = "TRLClassifier.classify" /\ ~aux.raised
   /\ aux.input.lifecycle = L_Active /\ aux.input.trl = Absent) =>
    aux.output \in 7..9

\* C27: stage 5 gives every paper, patent and component the TRL that the
\* classifier path of its type (TRLProvider._classify_paper, _classify_patent,
\* _classify_component) computes for the record, and a confidence score
C27_Stage5AgreesWithClassifier ==
  (outcome = "running" /\ stage = 5) =>
    /\ \A i \in SeqRange(res.components) :
         /\ objs.components[i].trl = _classify_component(objs.components[i]).trl
         /\ "trl_confidence" \in DOMAIN objs.components[i]
    /\ \A i \in SeqRange(res.papers) :
         /\ objs.papers[i].trl = _classify_paper(objs.papers[i]).trl
         /\ "trl_confidence" \in DOMAIN objs.papers[i]
    /\ \A i \in SeqRange(res.patents) :
         /\ objs.patents[i].trl = _classify_patent(objs.patents[i]).trl
         /\ "trl_confidence" \in DOMAIN objs.patents[i]

\* the lower-cased title + " " + abstract of a paper or patent
TextOf(item) == Lower(Fmt(item.title) \o <<" ">> \o Fmt(item.abstract))

\* key occurs, whatever the case, in the text of item; an empty key never does
OccursIn(key, item) == Present(key) /\ Contains(Lower(key), TextOf(item))

\* C28: after stage 6 there is a paper_to_patent edge (paper, patent) iff the
\* patent's non-empty patent_number occurs case-insensitively in the paper's
\* title + abstract, a patent_to_component edge (patent, component) iff the
\* component's non-empty category occurs case-insensitively in the patent's
\* title + abstract, and there is no other edge
C28_EdgesExact ==
  (outcome = "running" /\ stage = 6) =>
    LET x == res.cross_references
    IN /\ {x.paper_to_patent[k] : k \in 1..Len(x.paper_to_patent)} =
            {[paper |-> objs.papers[i].title, patent |-> objs.patents[j].patent_number] :
               <<i, j>> \in {e \in SeqRange(res.papers) \X SeqRange(res.patents) :
                  OccursIn(objs.patents[e[2]].patent_number, objs.papers[e[1]])}}
       /\ {x.patent_to_component[k] : k \in 1..Len(x.patent_to_component)} =
            {[patent |-> objs.patents[i].patent_number,
              component |-> objs.components[j].part_number] :
               <<i, j>> \in {e \in SeqRange(res.patents) \X SeqRange(res.components) :
                  OccursIn(objs.components[e[2]].category, objs.patents[e[1]])}}
       /\ x.paper_to_component = << >>

\* stage 6 linked a patent to one component and not to another
C28_Witness ==
  /\ outcome = "running" /\ stage = 6
  /\ res.cross_references.patent_to_component # << >>
  /\ \E j \in SeqRange(res.components) : \E i \in SeqRange(res.patents) :
       ~OccursIn(objs.components[j].category, objs.patents[i])


----------------------------------------------------------------------------
\* C29: validate_results accepts only the return value of a run that
\* completed all ten stages with at least one finding, and it rejects the
\* error value process() returns when a stage raised.
C29_ValidOnlyCompleteWithFindings ==
  /\ (validate_results(ret) =>
        /\ ret.kind = "result"
        /\ ret.pipeline_stages = PIPELINE_STAGES
        /\ ret.total_findings > 0)
  /\ (outcome = "error" => ~validate_results(ret))

\* the half of C29 about complete returns, which the code keeps
C29_CompleteValidIffFindings ==
  outcome = "complete" =>
    (validate_results(ret) <=> ret.total_findings > 0)

----------------------------------------------------------------------------
\* a record after a step: the same fields, each with the value it had, except
\* that a trl the record did not carry may have been written
KeepsFields(before, after) ==
  /\ DOMAIN after = DOMAIN before
  /\ \A f \in DOMAIN before :
       after[f] # before[f] => (f = "trl" /\ before[f] = Absent)

\* C30: the pipeline is additive on its input. No step changes or removes a
\* field a record already carried (the only write is a trl the record lacked),
\* and no step changes the caller's raw lists: they keep their length and
\* their order.
C30_PipelineAdditive ==
  [][/\ raw' = raw
     /\ \A lane \in Lanes :
          /\ Len(objs'[lane]) = Len(objs[lane])
          /\ \A i \in 1..Len(objs[lane]) : KeepsFields(objs[lane][i], objs'[lane][i])]_vars

\* a complete run whose ranking put a later paper of the caller's list first,
\* with a trl written into every returned paper, and with a component in the
\* result that came with a trl of its own other than the placeholder
C30_Witness ==
  /\ outcome = "complete"
  /\ Len(ret.processed_results.papers) >= 2
  /\ ret.processed_results.papers[1] > ret.processed_results.papers[2]
  /\ raw.papers.list = [i \in 1..Len(objs.papers) |-> i]
  /\ \A i \in SeqRange(ret.processed_results.papers) : objs.papers[i].trl # Absent
  /\ \E j \in SeqRange(ret.processed_results.components) :
       objs.components[j].trl # component_placeholder_trl(objs.components[j])
====
